---- MODULE Spec2Model ----
(***************************************************************************)
(* Model of the trajectory dataset pipeline of the maze framework:         *)
(*   maze/core/trajectory_recording/datasets/in_memory_dataset.py          *)
(*   maze/core/trajectory_recording/datasets/trajectory_processor.py       *)
(*                                                                         *)
(* The state is one InMemoryDataset object (its flat step-record store,    *)
(* its episode references, its reporting queue), the worker processes of   *)
(* the parallel load in progress, and the position of the caller inside    *)
(* load_data / append.  Pure code (deserialization, pre-processing,        *)
(* conversion, chunking) is modelled by operators.                         *)
(***************************************************************************)
EXTENDS Integers, Sequences, FiniteSets, Bags, TLC

VARIABLES
    n_workers,               \* InMemoryDataset.n_workers
    conversion_env_factory,  \* InMemoryDataset.conversion_env_factory (EnvFactory or None)
    trajectory_processor,    \* InMemoryDataset.trajectory_processor
    step_records,            \* InMemoryDataset.step_records
    trajectory_references,   \* InMemoryDataset.trajectory_references
    reporting_queue,         \* InMemoryDataset.reporting_queue: per producer, the messages
                             \* it has put that the coordinator has not read yet
    workers,                 \* the Process list of _load_data_parallel
    n_workers_done,          \* local n_workers_done of _load_data_parallel
    call,                    \* the caller's position in load_data / append
    origin,                  \* history: where each stored episode reference came from
    sent,                    \* history: the messages each worker has put on the queue
    inputs_left              \* bound: files and trajectories the caller may still hand over

vars == <<n_workers, conversion_env_factory, trajectory_processor, step_records,
          trajectory_references, reporting_queue, workers, n_workers_done, call,
          origin, sent, inputs_left>>

config == <<n_workers, conversion_env_factory, trajectory_processor>>

(***************************************************************************)
(* Bounds of the model.                                                    *)
(***************************************************************************)
\* Largest n_workers a dataset is constructed with.
MaxWorkers == 2
\* Amount of input handed to one dataset over its life: every appended trajectory
\* counts one, every file in a list given to load_data counts its pickled items
\* (at least one).
MaxInputs == 3
\* Number of messages one worker may have on the reporting queue unread; the real
\* queue is unbounded.
MaxUnread == 2

\* Longest trajectory, largest clip_k and number of calls of the specification
\* that exercises the trajectory processors on one trajectory object.
MaxLen == 5
MaxClipK == 2
MaxCalls == 2

\* Longest trajectory handed to convert_trajectory_with_env on its own and largest
\* number of items in a pickled list or dict handed to deserialize_trajectory.
MaxSteps == 3
MaxItems == 2

\* Python's None as the value of an optional field; a present value is a non-empty tuple.
None == << >>
\* No exception raised.
NoException == "None"

(***************************************************************************)
(* Records.                                                                *)
(***************************************************************************)
\* A raw StateRecord: maze_state / maze_action may be absent (None).
StateRecord(id, maze_state, maze_action, done, info) ==
    [kind |-> "StateRecord", id |-> id, maze_state |-> maze_state,
     maze_action |-> maze_action, done |-> done, info |-> info]

\* A converted StructuredSpacesRecord.
StructuredSpacesRecord(id, observations, actions, done, info, first) ==
    [kind |-> "StructuredSpacesRecord", id |-> id, observations |-> observations,
     actions |-> actions, done |-> done, info |-> info,
     first_step_in_episode |-> first]

\* StructuredSpacesRecord.converted_from(step_record, conversion_env, first_step_in_episode):
\* the observation is derived from the state, the action from state and action.
converted_from(step_record, first_step_in_episode) ==
    StructuredSpacesRecord(step_record.id,
                           <<"observation">> \o step_record.maze_state,
                           <<"action">> \o step_record.maze_state \o step_record.maze_action,
                           step_record.done, step_record.info, first_step_in_episode)

\* info mappings: None, an empty mapping, or one holding the time-limit mark.
NoInfo == << {} >>
TimeLimitInfo == << {"TimeLimit.truncated"} >>

\* The conversion environment factory and the environment it builds.
EnvFactory == << "conversion_env_factory" >>
Env == << "conversion_env" >>

IsIncomplete(step_record) ==
    IF step_record.kind = "StateRecord"
    THEN step_record.maze_state = None \/ step_record.maze_action = None
    ELSE step_record.observations = None \/ step_record.actions = None

(***************************************************************************)
(* Results of code that may raise: exc is NoException or the exception's type.    *)
(***************************************************************************)
Ok(value) == [exc |-> NoException, value |-> value]
Raise(exc, value) == [exc |-> exc, value |-> value]

(***************************************************************************)
(* TrajectoryProcessor                                                     *)
(***************************************************************************)
IdentityTrajectoryProcessor == [name |-> "Identity", clip_k |-> 0]
DeadEndClippingTrajectoryProcessor(clip_k) == [name |-> "DeadEndClipping", clip_k |-> clip_k]

\* Python's seq[:-k]: all but the last k items; seq[:-0] is seq[:0], the empty list.
DropLast(seq, k) ==
    IF k = 0 \/ k >= Len(seq) THEN <<>> ELSE SubSeq(seq, 1, Len(seq) - k)

\* Python's itertools.chain(*lists): the lists one after the other.
RECURSIVE Flatten(_)
Flatten(lists) == IF Len(lists) = 0 THEN <<>> ELSE Head(lists) \o Flatten(Tail(lists))

\* IdentityTrajectoryProcessor.pre_process
IdentityPreProcess(steps) == Ok(steps)

\* A slip in pre_process: episodes of up to 2 * clip_k steps are discarded.
DeadEndClippingDiscardsAtTwice(clip_k, steps) ==
    IF Len(steps) = 0 THEN Raise("IndexError", steps)
    ELSE LET last_record == steps[Len(steps)]
             kept == IF IsIncomplete(last_record) THEN DropLast(steps, 1) ELSE steps
         IN  IF Len(kept) = 0 THEN Raise("IndexError", kept)
             ELSE LET is_done == kept[Len(kept)].done
                      info == kept[Len(kept)].info
                  IN  IF /\ Len(kept) > clip_k * 2
                         /\ is_done
                         /\ (info = None \/ "TimeLimit.truncated" \notin info[1])
                      THEN Ok(DropLast(kept, clip_k))
                      ELSE IF Len(kept) <= clip_k * 2
                           THEN Ok(<<>>)
                           ELSE Ok(kept)

\* A slip in pre_process: the time-limit mark in info is not looked at.
DeadEndClippingIgnoresTimeLimit(clip_k, steps) ==
    IF Len(steps) = 0 THEN Raise("IndexError", steps)
    ELSE LET last_record == steps[Len(steps)]
             kept == IF IsIncomplete(last_record) THEN DropLast(steps, 1) ELSE steps
         IN  IF Len(kept) = 0 THEN Raise("IndexError", kept)
             ELSE LET is_done == kept[Len(kept)].done
                  IN  IF Len(kept) > clip_k * 2 /\ is_done
                      THEN Ok(DropLast(kept, clip_k))
                      ELSE IF Len(kept) < clip_k * 2
                           THEN Ok(<<>>)
                           ELSE Ok(kept)

\* A slip in pre_process: the branch that discards short episodes is missing.
DeadEndClippingKeepsShort(clip_k, steps) ==
    IF Len(steps) = 0 THEN Raise("IndexError", steps)
    ELSE LET last_record == steps[Len(steps)]
             kept == IF IsIncomplete(last_record) THEN DropLast(steps, 1) ELSE steps
         IN  IF Len(kept) = 0 THEN Raise("IndexError", kept)
             ELSE LET is_done == kept[Len(kept)].done
                      info == kept[Len(kept)].info
                  IN  IF /\ Len(kept) > clip_k * 2
                         /\ is_done
                         /\ (info = None \/ "TimeLimit.truncated" \notin info[1])
                      THEN Ok(DropLast(kept, clip_k))
                      ELSE Ok(kept)

\* DeadEndClippingTrajectoryProcessor.pre_process on trajectory.step_records.
\* step_records[-1] of an empty list raises IndexError.
DeadEndClippingPreProcess(clip_k, steps) ==
    IF Len(steps) = 0 THEN Raise("IndexError", steps)
    ELSE LET last_record == steps[Len(steps)]
             kept == IF IsIncomplete(last_record) THEN DropLast(steps, 1) ELSE steps
         IN  IF Len(kept) = 0 THEN Raise("IndexError", kept)
             ELSE LET is_done == kept[Len(kept)].done
                      info == kept[Len(kept)].info
                  IN  IF /\ Len(kept) > clip_k * 2
                         /\ is_done
                         /\ (info = None \/ "TimeLimit.truncated" \notin info[1])
                      THEN Ok(DropLast(kept, clip_k))
                      ELSE IF Len(kept) < clip_k * 2
                           THEN Ok(<<>>)
                           ELSE Ok(kept)

pre_process(processor, steps) ==
    IF processor.name = "Identity"
    THEN IdentityPreProcess(steps)
    ELSE DeadEndClippingPreProcess(processor.clip_k, steps)

\* A slip in the conversion: an incomplete raw record is dropped only at the end of
\* the episode.
RECURSIVE ConvertFromDropsAtEndOnly(_, _, _)
ConvertFromDropsAtEndOnly(steps, step_id, conversion_env) ==
    IF step_id >= Len(steps) THEN Ok(<<>>)
    ELSE LET step_record == steps[step_id + 1]
             rest == ConvertFromDropsAtEndOnly(steps, step_id + 1, conversion_env)
         IN  IF step_record.kind = "StateRecord"
             THEN IF conversion_env = None THEN Raise("AssertionError", <<>>)
                  ELSE IF rest.exc # NoException THEN rest
                  ELSE IF IsIncomplete(step_record) /\ step_id = Len(steps) - 1 THEN rest
                  ELSE Ok(<<converted_from(step_record, step_id = 0)>> \o rest.value)
             ELSE IF rest.exc # NoException THEN rest
                  ELSE Ok(<<step_record>> \o rest.value)

\* A slip in the conversion: the environment is asked for only when a complete raw
\* record is about to be converted.
RECURSIVE ConvertFromAssertsLate(_, _, _)
ConvertFromAssertsLate(steps, step_id, conversion_env) ==
    IF step_id >= Len(steps) THEN Ok(<<>>)
    ELSE LET step_record == steps[step_id + 1]
             rest == ConvertFromAssertsLate(steps, step_id + 1, conversion_env)
         IN  IF step_record.kind = "StateRecord"
             THEN IF IsIncomplete(step_record) THEN rest
                  ELSE IF conversion_env = None THEN Raise("AssertionError", <<>>)
                  ELSE IF rest.exc # NoException THEN rest
                  ELSE Ok(<<converted_from(step_record, step_id = 0)>> \o rest.value)
             ELSE IF rest.exc # NoException THEN rest
                  ELSE Ok(<<step_record>> \o rest.value)

\* TrajectoryProcessor.convert_trajectory_with_env: conversion_env is Env or None.
RECURSIVE ConvertFrom(_, _, _)
ConvertFrom(steps, step_id, conversion_env) ==
    IF step_id >= Len(steps) THEN Ok(<<>>)
    ELSE LET step_record == steps[step_id + 1]
             rest == ConvertFrom(steps, step_id + 1, conversion_env)
         IN  IF step_record.kind = "StateRecord"
             THEN IF conversion_env = None THEN Raise("AssertionError", <<>>)
                  ELSE IF rest.exc # NoException THEN rest
                  ELSE IF IsIncomplete(step_record) THEN rest
                  ELSE Ok(<<converted_from(step_record, step_id = 0)>> \o rest.value)
             ELSE IF rest.exc # NoException THEN rest
                  ELSE Ok(<<step_record>> \o rest.value)

convert_trajectory_with_env(steps, conversion_env) == ConvertFrom(steps, 0, conversion_env)

\* TrajectoryProcessor.process: a list with one converted episode per pre-processed
\* trajectory (both processors return a single trajectory, which is wrapped in a list).
process(processor, steps, conversion_env) ==
    LET pre_processed == pre_process(processor, steps)
    IN  IF pre_processed.exc # NoException THEN Raise(pre_processed.exc, <<>>)
        ELSE LET converted == convert_trajectory_with_env(pre_processed.value, conversion_env)
             IN  IF converted.exc # NoException THEN Raise(converted.exc, <<>>)
                 ELSE Ok(<<converted.value>>)

(***************************************************************************)
(* Persisted trajectory files.                                             *)
(***************************************************************************)
\* A TrajectoryRecord (its step_records) and an object of another type.
TrajectoryRecord(steps) == [is_trajectory |-> TRUE, step_records |-> steps]
NotATrajectory == [is_trajectory |-> FALSE, step_records |-> <<>>]

\* A pickled file: the top-level value is one TrajectoryRecord, a list, a dict
\* (its values, in insertion order) or something else.
PickleFile(shape, items) ==
    [is_path |-> TRUE, is_file |-> TRUE, shape |-> shape, items |-> items]
MissingFile == [is_path |-> TRUE, is_file |-> FALSE, shape |-> "other", items |-> <<>>]
\* What Path(trajectory_file) finds when trajectory_file is no str or Path but a
\* loaded TrajectoryRecord object.
NotAPath == [is_path |-> FALSE, is_file |-> FALSE, shape |-> "other", items |-> <<>>]

\* InMemoryDataset.deserialize_trajectory: the trajectories the generator yields
\* (value) and the exception that ends it, if any (exc).
RECURSIVE YieldItems(_, _)
YieldItems(items, i) ==
    IF i > Len(items) THEN Ok(<<>>)
    ELSE IF ~items[i].is_trajectory THEN Raise("AssertionError", <<>>)
    ELSE LET rest == YieldItems(items, i + 1)
         IN  [exc |-> rest.exc, value |-> <<items[i].step_records>> \o rest.value]

\* A slip in deserialize_trajectory: a pickled dict is not supported.
DeserializeTrajectoryListOnly(file) ==
    IF ~file.is_path THEN Raise("TypeError", <<>>)
    ELSE IF ~file.is_file THEN Raise("AssertionError", <<>>)
    ELSE IF file.shape = "TrajectoryRecord" THEN Ok(<<file.items[1].step_records>>)
    ELSE IF file.shape = "List" THEN YieldItems(file.items, 1)
    ELSE Raise("RuntimeError", <<>>)

deserialize_trajectory(file) ==
    IF ~file.is_path THEN Raise("TypeError", <<>>)
    ELSE IF ~file.is_file THEN Raise("AssertionError", <<>>)
    ELSE IF file.shape = "TrajectoryRecord" THEN Ok(<<file.items[1].step_records>>)
    ELSE IF file.shape \in {"List", "Dict"} THEN YieldItems(file.items, 1)
    ELSE Raise("RuntimeError", <<>>)

(***************************************************************************)
(* The episodes and files the model's load and append calls draw from.     *)
(***************************************************************************)
\* Three converted steps, done at the end.
EpisodeA == << StructuredSpacesRecord("a1", <<"o">>, <<"u">>, FALSE, NoInfo, TRUE),
               StructuredSpacesRecord("a2", <<"o">>, <<"u">>, FALSE, NoInfo, FALSE),
               StructuredSpacesRecord("a3", <<"o">>, <<"u">>, TRUE, NoInfo, FALSE) >>
\* Two complete raw steps and the incomplete record that ends a recorded episode.
EpisodeB == << StateRecord("b1", <<"s">>, <<"m">>, FALSE, NoInfo),
               StateRecord("b2", <<"s">>, <<"m">>, TRUE, TimeLimitInfo),
               StateRecord("b3", <<"s">>, None, TRUE, None) >>
\* One converted step.
EpisodeC == << StructuredSpacesRecord("c1", <<"o">>, <<"u">>, TRUE, None, TRUE) >>
\* An episode without steps.
EpisodeD == << >>

Episodes == {EpisodeA, EpisodeB, EpisodeC, EpisodeD}

Paths == {"single.pkl", "list.pkl", "dict.pkl", "other.pkl"}

\* A list given to load_data may also hold loaded TrajectoryRecord objects; the
\* model names such an object by a string that is no path.
LoadedRecords == {"TrajectoryRecord(EpisodeA)"}
Loaded(trajectory_file) == EpisodeA

Disk(path) ==
    CASE path = "single.pkl" -> PickleFile("TrajectoryRecord", <<TrajectoryRecord(EpisodeA)>>)
      [] path = "list.pkl"   -> PickleFile("List", <<TrajectoryRecord(EpisodeB),
                                                     TrajectoryRecord(EpisodeC)>>)
      [] path = "dict.pkl"   -> PickleFile("Dict", <<TrajectoryRecord(EpisodeC),
                                                     NotATrajectory>>)
      [] path \in LoadedRecords -> NotAPath
      [] OTHER               -> PickleFile("other", <<>>)

\* What a path counts against the input bound.
Cost(path) == IF Len(Disk(path).items) > 1 THEN Len(Disk(path).items) ELSE 1

RECURSIVE TotalCost(_)
TotalCost(paths) == IF Len(paths) = 0 THEN 0 ELSE Cost(Head(paths)) + TotalCost(Tail(paths))

\* All lists of paths that count at most n.
RECURSIVE PathLists(_)
PathLists(n) ==
    {<<>>} \cup UNION {{<<p>> \o l : l \in PathLists(n - Cost(p))} :
                       p \in {q \in Paths : Cost(q) <= n}}

(***************************************************************************)
(* The store.                                                              *)
(***************************************************************************)
\* Python's range(start, stop).
Range(start, stop) == [start |-> start, stop |-> stop]
RangeLen(r) == IF r.stop > r.start THEN r.stop - r.start ELSE 0

\* Where a converted episode came from: the worker that produced it (-1: the
\* caller's own process), the 0-based position of its file in the list given to
\* load (-1: a direct append), the 1-based position of the source trajectory in
\* that file, and its position in the list process() returned.
Tag(worker, pos, ep, k) == [worker |-> worker, pos |-> pos, ep |-> ep, k |-> k]

\* The dataset's store as one value, for the operators below.
Store(records, references, origins) ==
    [step_records |-> records, trajectory_references |-> references, origin |-> origins]

\* A slip in _store_loaded_trajectory: the range is one index too long.
StoreLoadedTrajectoryLongRange(store, records, tag) ==
    LET offset == Len(store.step_records)
    IN  Store(store.step_records \o records,
              Append(store.trajectory_references, Range(offset, offset + Len(records) + 1)),
              Append(store.origin, tag))

\* A slip in _store_loaded_trajectory: the offset counts episodes instead of steps.
StoreLoadedTrajectoryEpisodeOffset(store, records, tag) ==
    LET offset == Len(store.trajectory_references)
    IN  Store(store.step_records \o records,
              Append(store.trajectory_references, Range(offset, offset + Len(records))),
              Append(store.origin, tag))

\* InMemoryDataset._store_loaded_trajectory
StoreLoadedTrajectory(store, records, tag) ==
    LET offset == Len(store.step_records)
    IN  Store(store.step_records \o records,
              Append(store.trajectory_references, Range(offset, offset + Len(records))),
              Append(store.origin, tag))

\* The loop of InMemoryDataset.append over the list process() returned.
RECURSIVE StoreAll(_, _, _, _, _, _)
StoreAll(store, spaces_records_list, k, worker, pos, ep) ==
    IF k > Len(spaces_records_list) THEN store
    ELSE StoreAll(StoreLoadedTrajectory(store, spaces_records_list[k], Tag(worker, pos, ep, k)),
                  spaces_records_list, k + 1, worker, pos, ep)

\* A slip in append: an episode the processor emptied is not stored.
AppendToSkipsEmpty(store, steps, processor, conversion_env, pos, ep) ==
    LET spaces_records_list == process(processor, steps, conversion_env)
    IN  IF spaces_records_list.exc # NoException
        THEN Raise(spaces_records_list.exc, store)
        ELSE Ok(StoreAll(store, SelectSeq(spaces_records_list.value, LAMBDA e : Len(e) > 0),
                         1, -1, pos, ep))

\* InMemoryDataset.append: exc is the exception process() raised, value the store.
AppendTo(store, steps, processor, conversion_env, pos, ep) ==
    LET spaces_records_list == process(processor, steps, conversion_env)
    IN  IF spaces_records_list.exc # NoException
        THEN Raise(spaces_records_list.exc, store)
        ELSE Ok(StoreAll(store, spaces_records_list.value, 1, -1, pos, ep))

\* InMemoryDataset._read_input_data_to_list for a list of paths, each with its
\* 0-based position (enumerate).
Enumerate(paths) == [i \in 1..Len(paths) |-> [path |-> paths[i], pos |-> i - 1]]

(***************************************************************************)
(* Sequential loading.                                                     *)
(***************************************************************************)
RECURSIVE AppendTrajectories(_, _, _, _, _, _)

\* A slip in the inner loop: it stops after the first trajectory of a file.
AppendTrajectoriesFirstOnly(store, trajectories, ep, pos, processor, conversion_env) ==
    IF ep > Len(trajectories) \/ ep > 1 THEN Ok(store)
    ELSE LET r == AppendTo(store, trajectories[ep], processor, conversion_env, pos, ep)
         IN  IF r.exc # NoException THEN r
             ELSE AppendTrajectories(r.value, trajectories, ep + 1, pos, processor, conversion_env)

\* The inner loop of _load_data_sequential over the trajectories of one file.
AppendTrajectories(store, trajectories, ep, pos, processor, conversion_env) ==
    IF ep > Len(trajectories) THEN Ok(store)
    ELSE LET r == AppendTo(store, trajectories[ep], processor, conversion_env, pos, ep)
         IN  IF r.exc # NoException THEN r
             ELSE AppendTrajectories(r.value, trajectories, ep + 1, pos, processor, conversion_env)

\* The outer loop of _load_data_sequential: exc is the exception that ended the
\* call (if any), value the store it leaves behind.
RECURSIVE LoadDataSequential(_, _, _, _, _)

\* A slip in the outer loop: the later files are loaded before file i.
LoadDataSequentialLaterFirst(store, files, i, processor, conversion_env) ==
    IF i > Len(files) THEN Ok(store)
    ELSE LET later == LoadDataSequential(store, files, i + 1, processor, conversion_env)
             d == deserialize_trajectory(Disk(files[i].path))
             r == AppendTrajectories(later.value, d.value, 1, files[i].pos, processor,
                                     conversion_env)
         IN  IF later.exc # NoException THEN later
             ELSE IF r.exc # NoException THEN r
             ELSE IF d.exc # NoException THEN Raise(d.exc, r.value)
             ELSE r

LoadDataSequential(store, files, i, processor, conversion_env) ==
    IF i > Len(files) THEN Ok(store)
    ELSE LET d == deserialize_trajectory(Disk(files[i].path))
             r == AppendTrajectories(store, d.value, 1, files[i].pos, processor, conversion_env)
         IN  IF r.exc # NoException THEN r
             ELSE IF d.exc # NoException THEN Raise(d.exc, r.value)
             ELSE LoadDataSequential(r.value, files, i + 1, processor, conversion_env)

(***************************************************************************)
(* Parallel loading: chunks, worker processes, messages.                   *)
(***************************************************************************)
DONE_TOKEN == "DONE"

\* Messages on the reporting queue; tag says who put the message and is not read
\* by the coordinator.
PayloadMessage(records, tag) ==
    [type |-> "payload", step_records |-> records, exception |-> NoException, tag |-> tag]
DoneMessage(worker) ==
    [type |-> DONE_TOKEN, step_records |-> <<>>, exception |-> NoException,
     tag |-> Tag(worker, -1, -1, -1)]
ExceptionReport(exception, worker, pos) ==
    [type |-> "ExceptionReport", step_records |-> <<>>, exception |-> exception,
     tag |-> Tag(worker, pos, -1, -1)]

\* A slip in the chunking: i // n_workers in place of i % n_workers.
ChunkByQuotient(files, n, w) == SelectSeq(files, LAMBDA f : f.pos \div n = w)

\* chunks[i % n_workers].append(trajectory): the chunk of worker w (0-based).
Chunk(files, n, w) == SelectSeq(files, LAMBDA f : f.pos % n = w)
Chunks(files, n) == [w \in 1..n |-> Chunk(files, n, w - 1)]

\* The launch loop: one process per chunk, stopping at the first empty chunk.
RECURSIVE Launch(_, _)
Launch(chunks, w) ==
    IF w > Len(chunks) \/ Len(chunks[w]) = 0 THEN <<>>
    ELSE <<[trajectory_files |-> chunks[w], state |-> "running", n_put |-> 0]>>
         \o Launch(chunks, w + 1)

\* A slip in the put loop: every step record is put as a message of its own.
PutAllPerStep(spaces_records_list, worker, pos, ep) ==
    Flatten([k \in 1..Len(spaces_records_list) |->
                [j \in 1..Len(spaces_records_list[k]) |->
                    PayloadMessage(<<spaces_records_list[k][j]>>, Tag(worker, pos, ep, k))]])

\* reporting_queue.put for every episode process() returned.
PutAll(spaces_records_list, worker, pos, ep) ==
    [k \in 1..Len(spaces_records_list) |->
        PayloadMessage(spaces_records_list[k], Tag(worker, pos, ep, k))]

\* The loop of DataLoadWorker.run over the trajectories of one file: the messages
\* put (value) and the exception that ended it (exc).
RECURSIVE RunTrajectories(_, _, _, _, _, _)
RunTrajectories(trajectories, ep, worker, pos, processor, env) ==
    IF ep > Len(trajectories) THEN Ok(<<>>)
    ELSE LET r == process(processor, trajectories[ep], env)
         IN  IF r.exc # NoException THEN Raise(r.exc, <<>>)
             ELSE LET rest == RunTrajectories(trajectories, ep + 1, worker, pos, processor, env)
                  IN  [exc |-> rest.exc, value |-> PutAll(r.value, worker, pos, ep) \o rest.value]

\* The isinstance branch of DataLoadWorker.run: a str or Path is deserialized,
\* anything else raises RuntimeError.
TrajectoriesOf(trajectory_file) ==
    IF trajectory_file \in LoadedRecords THEN Raise("RuntimeError", <<>>)
    ELSE deserialize_trajectory(Disk(trajectory_file))

RECURSIVE RunFiles(_, _, _, _, _)

\* A slip in DataLoadWorker.run: the DONE token is put in a finally block, so it
\* also follows an exception report.
RunFilesDoneInFinally(trajectory_files, i, worker, processor, env) ==
    IF i > Len(trajectory_files) THEN <<DoneMessage(worker)>>
    ELSE LET pos == trajectory_files[i].pos
             d == TrajectoriesOf(trajectory_files[i].path)
             r == RunTrajectories(d.value, 1, worker, pos, processor, env)
         IN  IF r.exc # NoException
             THEN r.value \o <<ExceptionReport(r.exc, worker, pos), DoneMessage(worker)>>
             ELSE IF d.exc # NoException
             THEN r.value \o <<ExceptionReport(d.exc, worker, pos), DoneMessage(worker)>>
             ELSE r.value \o RunFiles(trajectory_files, i + 1, worker, processor, env)

\* A slip in DataLoadWorker.run: the exception is caught inside the file loop, the
\* remaining files are still processed and the report is put at the end.
RunFilesReportsAtEnd(trajectory_files, i, worker, processor, env) ==
    IF i > Len(trajectory_files) THEN <<DoneMessage(worker)>>
    ELSE LET pos == trajectory_files[i].pos
             d == TrajectoriesOf(trajectory_files[i].path)
             r == RunTrajectories(d.value, 1, worker, pos, processor, env)
             rest == RunFiles(trajectory_files, i + 1, worker, processor, env)
             exc == IF r.exc # NoException THEN r.exc ELSE d.exc
         IN  IF exc # NoException
             THEN r.value \o SubSeq(rest, 1, Len(rest) - 1)
                          \o <<ExceptionReport(exc, worker, pos)>>
             ELSE r.value \o rest

\* The body of the try block of DataLoadWorker.run from file i on, followed by the
\* DONE token or, in the except block, the exception report.
RunFiles(trajectory_files, i, worker, processor, env) ==
    IF i > Len(trajectory_files) THEN <<DoneMessage(worker)>>
    ELSE LET pos == trajectory_files[i].pos
             d == TrajectoriesOf(trajectory_files[i].path)
             r == RunTrajectories(d.value, 1, worker, pos, processor, env)
         IN  IF r.exc # NoException
             THEN r.value \o <<ExceptionReport(r.exc, worker, pos)>>
             ELSE IF d.exc # NoException
             THEN r.value \o <<ExceptionReport(d.exc, worker, pos)>>
             ELSE r.value \o RunFiles(trajectory_files, i + 1, worker, processor, env)

\* DataLoadWorker.run: every message the worker puts if it is left to run to its end.
WorkerRun(worker, trajectory_files, processor, env_factory) ==
    RunFiles(trajectory_files, 1, worker, processor,
             IF env_factory # None THEN Env ELSE None)

(***************************************************************************)
(* The state machine.                                                      *)
(***************************************************************************)
Processors == {IdentityTrajectoryProcessor, DeadEndClippingTrajectoryProcessor(1)}

\* The caller's position: op is the method called last, pc where it stands
\* ("monitoring": inside the loop of _load_data_parallel), exc the exception it
\* raised, cause the exception that one was raised from, pre_steps / pre_refs the
\* sizes of the store when the call began.  trajectory is the TrajectoryRecord
\* object the caller keeps hold of (<<step_records>>, None if it keeps none),
\* argument the step_records that object had when the call began, returned the
\* value the call returned (None if it returned None or raised).
Call(op, pc, paths, exc, cause, pre_steps, pre_refs) ==
    [op |-> op, pc |-> pc, paths |-> paths, exc |-> exc, cause |-> cause,
     pre_steps |-> pre_steps, pre_refs |-> pre_refs,
     trajectory |-> None, argument |-> None, returned |-> None]

CurrentStore == Store(step_records, trajectory_references, origin)

SetStore(store) ==
    /\ step_records' = store.step_records
    /\ trajectory_references' = store.trajectory_references
    /\ origin' = store.origin

\* InMemoryDataset.__init__ with dir_or_file = None.
Init ==
    /\ n_workers \in 0..MaxWorkers
    /\ conversion_env_factory \in {EnvFactory, None}
    /\ trajectory_processor \in Processors
    /\ step_records = <<>>
    /\ trajectory_references = <<>>
    /\ reporting_queue = None
    /\ workers = <<>>
    /\ n_workers_done = 0
    /\ call = Call("none", "idle", <<>>, NoException, NoException, 0, 0)
    /\ origin = <<>>
    /\ sent = <<>>
    /\ inputs_left = MaxInputs

\* InMemoryDataset.__len__
DatasetLen == Len(step_records)

\* No call is running on the dataset (single-writer assumption).
CallerFree == call.pc # "monitoring"

\* load_data with n_workers = 1: _load_data_sequential, start to end.
LoadSequential(paths) ==
    /\ CallerFree
    /\ n_workers = 1
    /\ TotalCost(paths) <= inputs_left
    /\ LET r == LoadDataSequential(CurrentStore, Enumerate(paths), 1, trajectory_processor,
                                   IF conversion_env_factory # None THEN Env ELSE None)
       IN  /\ SetStore(r.value)
           /\ call' = Call("load_data", IF r.exc = NoException THEN "returned" ELSE "raised",
                           paths, r.exc, NoException, Len(step_records),
                           Len(trajectory_references))
    /\ inputs_left' = inputs_left - TotalCost(paths)
    /\ UNCHANGED <<config, reporting_queue, workers, n_workers_done, sent>>

\* A slip in _load_data_parallel: the reporting queue of the dataset is created
\* once and used again, with what an earlier call left unread.
LoadParallelKeepsQueue(paths) ==
    /\ CallerFree
    /\ n_workers # 1
    /\ TotalCost(paths) <= inputs_left
    /\ inputs_left' = inputs_left - TotalCost(paths)
    /\ IF n_workers = 0 /\ Len(paths) > 0
       THEN /\ call' = Call("load_data", "raised", paths, "ZeroDivisionError", NoException,
                            Len(step_records), Len(trajectory_references))
            /\ UNCHANGED <<reporting_queue, workers, n_workers_done, sent>>
       ELSE /\ workers' = Launch(Chunks(Enumerate(paths), n_workers), 1)
            /\ reporting_queue' = [w \in 1..Len(workers') |->
                                      IF w <= Len(reporting_queue) THEN reporting_queue[w]
                                      ELSE <<>>]
            /\ sent' = [w \in 1..Len(workers') |-> <<>>]
            /\ n_workers_done' = 0
            /\ call' = Call("load_data", "monitoring", paths, NoException, NoException,
                            Len(step_records), Len(trajectory_references))
    /\ UNCHANGED <<config, step_records, trajectory_references, origin>>

\* load_data with n_workers # 1: _load_data_parallel up to the monitoring loop.
\* With n_workers = 0 the chunking raises ZeroDivisionError on the first file.
LoadParallel(paths) ==
    /\ CallerFree
    /\ n_workers # 1
    /\ TotalCost(paths) <= inputs_left
    /\ inputs_left' = inputs_left - TotalCost(paths)
    /\ IF n_workers = 0 /\ Len(paths) > 0
       THEN /\ call' = Call("load_data", "raised", paths, "ZeroDivisionError", NoException,
                            Len(step_records), Len(trajectory_references))
            /\ UNCHANGED <<reporting_queue, workers, n_workers_done, sent>>
       ELSE /\ workers' = Launch(Chunks(Enumerate(paths), n_workers), 1)
            /\ reporting_queue' = [w \in 1..Len(workers') |-> <<>>]
            /\ sent' = [w \in 1..Len(workers') |-> <<>>]
            /\ n_workers_done' = 0
            /\ call' = Call("load_data", "monitoring", paths, NoException, NoException,
                            Len(step_records), Len(trajectory_references))
    /\ UNCHANGED <<config, step_records, trajectory_references, origin>>

\* A slip in the except block of DataLoadWorker.run: the exception is raised again
\* without a report being put, so a worker whose run fails ends in silence.
WorkerPutDiesSilently(w) ==
    /\ w \in 1..Len(workers)
    /\ workers[w].state = "running"
    /\ Len(reporting_queue[w]) < MaxUnread
    /\ LET run == WorkerRun(w, workers[w].trajectory_files, trajectory_processor,
                            conversion_env_factory)
           n == workers[w].n_put + 1
           message == run[n]
           put == IF message.type = "ExceptionReport" THEN <<>> ELSE <<message>>
       IN  /\ reporting_queue' = [reporting_queue EXCEPT ![w] = @ \o put]
           /\ sent' = [sent EXCEPT ![w] = @ \o put]
           /\ workers' = [workers EXCEPT ![w].n_put = n,
                              ![w].state = IF n < Len(run) THEN "running"
                                           ELSE IF message.type = "ExceptionReport" THEN "raised"
                                           ELSE "done"]
    /\ UNCHANGED <<config, step_records, trajectory_references, origin, n_workers_done,
                   call, inputs_left>>

\* A worker process puts its next message; after the last message of its run the
\* process ends, returning (after the DONE token) or raising (after the report).
WorkerPut(w) ==
    /\ w \in 1..Len(workers)
    /\ workers[w].state = "running"
    /\ Len(reporting_queue[w]) < MaxUnread
    /\ LET run == WorkerRun(w, workers[w].trajectory_files, trajectory_processor,
                            conversion_env_factory)
           n == workers[w].n_put + 1
           message == run[n]
       IN  /\ reporting_queue' = [reporting_queue EXCEPT ![w] = Append(@, message)]
           /\ sent' = [sent EXCEPT ![w] = Append(@, message)]
           /\ workers' = [workers EXCEPT ![w].n_put = n,
                              ![w].state = IF n < Len(run) THEN "running"
                                           ELSE IF message.type = "ExceptionReport" THEN "raised"
                                           ELSE "done"]
    /\ UNCHANGED <<config, step_records, trajectory_references, origin, n_workers_done,
                   call, inputs_left>>

\* reporting_queue.get() in the monitoring loop may return the oldest unread
\* message of producer w: messages of one producer arrive in the order put, messages
\* of different producers in any order.
CanGet(w) ==
    /\ call.pc = "monitoring"
    /\ n_workers_done < Len(workers)
    /\ w \in 1..Len(workers)
    /\ Len(reporting_queue[w]) > 0

\* A slip: the newest message of a producer is read first.
GetNewest(w) ==
    [report |-> reporting_queue[w][Len(reporting_queue[w])],
     rest |-> [reporting_queue EXCEPT ![w] = SubSeq(@, 1, Len(@) - 1)]]

\* reporting_queue.get(): the message read and the queue it leaves.
Get(w) ==
    [report |-> Head(reporting_queue[w]),
     rest |-> [reporting_queue EXCEPT ![w] = Tail(@)]]

Report(w) == Get(w).report
Got(w) == Get(w).rest

\* Monitoring loop, report == DONE_TOKEN.
MonitorDone(w) ==
    /\ CanGet(w)
    /\ Report(w).type = DONE_TOKEN
    /\ reporting_queue' = Got(w)
    /\ n_workers_done' = n_workers_done + 1
    /\ UNCHANGED <<config, step_records, trajectory_references, origin, workers, call, sent, inputs_left>>

\* A slip in the exception branch: the workers are not terminated.
TerminateNone(ws) == ws

\* Process.terminate() on every worker.
Terminate(ws) ==
    [w \in 1..Len(ws) |->
        IF ws[w].state = "running" THEN [ws[w] EXCEPT !.state = "terminated"] ELSE ws[w]]

\* Monitoring loop, report is an ExceptionReport: terminate the workers and raise.
MonitorError(w) ==
    /\ CanGet(w)
    /\ Report(w).type = "ExceptionReport"
    /\ reporting_queue' = Got(w)
    /\ workers' = Terminate(workers)
    /\ call' = [call EXCEPT !.pc = "raised", !.exc = "RuntimeError",
                            !.cause = Report(w).exception]
    /\ UNCHANGED <<config, step_records, trajectory_references, origin, n_workers_done, sent, inputs_left>>

\* A slip in the store branch: an empty list of step records is skipped.
MonitorStoreSkipsEmpty(w) ==
    /\ CanGet(w)
    /\ Report(w).type = "payload"
    /\ reporting_queue' = Got(w)
    /\ IF Len(Report(w).step_records) = 0
       THEN UNCHANGED <<step_records, trajectory_references, origin>>
       ELSE SetStore(StoreLoadedTrajectory(CurrentStore, Report(w).step_records,
                                           Report(w).tag))
    /\ UNCHANGED <<config, workers, n_workers_done, call, sent, inputs_left>>

\* Monitoring loop, report is a list of step records: store it as one episode.
MonitorStore(w) ==
    /\ CanGet(w)
    /\ Report(w).type = "payload"
    /\ reporting_queue' = Got(w)
    /\ SetStore(StoreLoadedTrajectory(CurrentStore, Report(w).step_records,
                                      Report(w).tag))
    /\ UNCHANGED <<config, workers, n_workers_done, call, sent, inputs_left>>

\* A slip in the loop condition: the loop ends one DONE token early.
MonitorReturnEarly ==
    /\ call.pc = "monitoring"
    /\ ~(n_workers_done < Len(workers) - 1)
    /\ \A w \in 1..Len(workers) : workers[w].state # "running"
    /\ call' = [call EXCEPT !.pc = "returned"]
    /\ UNCHANGED <<config, step_records, trajectory_references, origin, reporting_queue,
                   workers, n_workers_done, sent, inputs_left>>

\* The monitoring loop ends, the workers are joined and _load_data_parallel returns.
MonitorReturn ==
    /\ call.pc = "monitoring"
    /\ ~(n_workers_done < Len(workers))
    /\ \A w \in 1..Len(workers) : workers[w].state # "running"
    /\ call' = [call EXCEPT !.pc = "returned"]
    /\ UNCHANGED <<config, step_records, trajectory_references, origin, reporting_queue,
                   workers, n_workers_done, sent, inputs_left>>

\* InMemoryDataset.append called directly with a trajectory object whose
\* step_records are steps; pre_process leaves its result in the object.
AppendTrajectory(steps) ==
    /\ CallerFree
    /\ inputs_left > 0
    /\ inputs_left' = inputs_left - 1
    /\ LET r == AppendTo(CurrentStore, steps, trajectory_processor,
                         IF conversion_env_factory # None THEN Env ELSE None, -1, 1)
       IN  /\ SetStore(r.value)
           /\ call' = [Call("append", IF r.exc = NoException THEN "returned" ELSE "raised",
                            <<>>, r.exc, NoException, Len(step_records),
                            Len(trajectory_references))
                         EXCEPT !.argument = <<steps>>,
                                !.trajectory = <<pre_process(trajectory_processor, steps).value>>]
    /\ UNCHANGED <<config, reporting_queue, workers, n_workers_done, sent>>

(***************************************************************************)
(* Reading the dataset: __getitem__ and random_split.                      *)
(***************************************************************************)
\* Python's list[index]: a negative index counts from the end.
ListItem(list, index) ==
    IF index >= 0 /\ index < Len(list) THEN Ok(<<list[index + 1]>>)
    ELSE IF index < 0 /\ index >= -Len(list) THEN Ok(<<list[Len(list) + index + 1]>>)
    ELSE Raise("IndexError", None)

\* InMemoryDataset.__getitem__: (observations_dict, actions_dict) of the record.
GetItem(records, index) ==
    LET item == ListItem(records, index)
    IN  IF item.exc # NoException THEN item
        ELSE Ok(<<item.value[1].observations, item.value[1].actions>>)

\* torch.randperm(n): the orders of 0..n-1 a generator may produce.
RandPerm(n) == {p \in [1..n -> 0..n - 1] : \A i, j \in 1..n : p[i] = p[j] => i = j}

\* list(range): the indices of a range.
RangeList(r) == [i \in 1..RangeLen(r) |-> r.start + i - 1]

\* A slip in the while loop: an episode that does not fit is passed over and the
\* loop goes on with the episodes after it.
RECURSIVE FillSubsetSkipsLarge(_, _, _, _, _)
FillSubsetSkipsLarge(references, shuffled_indices, next_shuffled_idx, n_samples_in_subs, desired_subs_len) ==
    LET next_ep == ListItem(shuffled_indices, next_shuffled_idx)
    IN  IF next_ep.exc # NoException
        THEN [exc |-> NoException, value |-> <<>>, next |-> next_shuffled_idx]
        ELSE LET next_ep_index == next_ep.value[1]
                 next_ep_length == RangeLen(references[next_ep_index + 1])
                 fits == n_samples_in_subs + next_ep_length <= desired_subs_len
                 rest == FillSubsetSkipsLarge(references, shuffled_indices,
                                              next_shuffled_idx + 1,
                                              IF fits THEN n_samples_in_subs + next_ep_length
                                              ELSE n_samples_in_subs,
                                              desired_subs_len)
             IN  IF fits THEN [rest EXCEPT !.value = <<next_ep_index>> \o @] ELSE rest

\* The while loop of random_split for one subset: the episodes taken (value), the
\* next unread position of shuffled_indices (next), and IndexError when the
\* loop reads past the end of shuffled_indices.
RECURSIVE FillSubset(_, _, _, _, _)
FillSubset(references, shuffled_indices, next_shuffled_idx, n_samples_in_subs, desired_subs_len) ==
    LET next_ep == ListItem(shuffled_indices, next_shuffled_idx)
    IN  IF next_ep.exc # NoException
        THEN [exc |-> next_ep.exc, value |-> <<>>, next |-> next_shuffled_idx]
        ELSE LET next_ep_index == next_ep.value[1]
                 next_ep_length == RangeLen(references[next_ep_index + 1])
             IN  IF n_samples_in_subs + next_ep_length > desired_subs_len
                 THEN [exc |-> NoException, value |-> <<>>, next |-> next_shuffled_idx]
                 ELSE LET rest == FillSubset(references, shuffled_indices,
                                             next_shuffled_idx + 1,
                                             n_samples_in_subs + next_ep_length,
                                             desired_subs_len)
                      IN  [rest EXCEPT !.value = <<next_ep_index>> \o @]

\* A slip in the last subset: it starts one after the episode that stopped the
\* filling (shuffled_indices[next_shuffled_idx + 1:]).
RECURSIVE SplitEpisodesDropsDeferred(_, _, _, _, _)
SplitEpisodesDropsDeferred(references, shuffled_indices, lengths, i, next_shuffled_idx) ==
    IF i >= Len(lengths)
    THEN Ok(<<SubSeq(shuffled_indices, next_shuffled_idx + 2, Len(shuffled_indices))>>)
    ELSE LET subset == FillSubset(references, shuffled_indices, next_shuffled_idx, 0,
                                  lengths[i])
         IN  IF subset.exc # NoException THEN Raise(subset.exc, <<>>)
             ELSE LET rest == SplitEpisodesDropsDeferred(references, shuffled_indices,
                                                         lengths, i + 1, subset.next)
                  IN  IF rest.exc # NoException THEN rest
                      ELSE Ok(<<subset.value>> \o rest.value)

\* The for loop over lengths[:-1] from subset i on, and the last subset.
RECURSIVE SplitEpisodes(_, _, _, _, _)
SplitEpisodes(references, shuffled_indices, lengths, i, next_shuffled_idx) ==
    IF i >= Len(lengths)
    THEN Ok(<<SubSeq(shuffled_indices, next_shuffled_idx + 1, Len(shuffled_indices))>>)
    ELSE LET subset == FillSubset(references, shuffled_indices, next_shuffled_idx, 0,
                                  lengths[i])
         IN  IF subset.exc # NoException THEN Raise(subset.exc, <<>>)
             ELSE LET rest == SplitEpisodes(references, shuffled_indices, lengths, i + 1,
                                            subset.next)
                  IN  IF rest.exc # NoException THEN rest
                      ELSE Ok(<<subset.value>> \o rest.value)

RECURSIVE Sum(_)
Sum(numbers) == IF Len(numbers) = 0 THEN 0 ELSE Head(numbers) + Sum(Tail(numbers))

\* Python's list[start:stop] on a list of indices, start and stop 0-based.
Slice(list, start, stop) ==
    SubSeq(list, start + 1, IF stop < Len(list) THEN stop ELSE Len(list))

\* The sum of the first n numbers of a list.
RECURSIVE SumTo(_, _)
SumTo(numbers, n) == IF n = 0 THEN 0 ELSE numbers[n] + SumTo(numbers, n - 1)

\* A slip in random_split: the flat indices of the shuffled episodes are cut at the
\* requested lengths, as torch's random_split cuts samples.
RandomSplitBySteps(records, references, lengths, shuffled_indices) ==
    IF Sum(lengths) # Len(records) THEN Raise("ValueError", None)
    ELSE LET flat == Flatten([e \in 1..Len(shuffled_indices) |->
                                 RangeList(references[shuffled_indices[e] + 1])])
         IN  Ok([n \in 1..Len(lengths) |->
                    Slice(flat, SumTo(lengths, n - 1), SumTo(lengths, n))])

\* A slip in random_split: the sum of the lengths is not compared with the size.
RandomSplitUnchecked(records, references, lengths, shuffled_indices) ==
    LET subsets == SplitEpisodes(references, shuffled_indices, lengths, 1, 0)
    IN  IF subsets.exc # NoException THEN Raise(subsets.exc, None)
        ELSE Ok([n \in 1..Len(subsets.value) |->
                    Flatten([e \in 1..Len(subsets.value[n]) |->
                                RangeList(references[subsets.value[n][e] + 1])])])

\* InMemoryDataset.random_split: the sample indices of every Subset returned.
RandomSplit(records, references, lengths, shuffled_indices) ==
    IF Sum(lengths) # Len(records) THEN Raise("ValueError", None)
    ELSE LET subsets == SplitEpisodes(references, shuffled_indices, lengths, 1, 0)
         IN  IF subsets.exc # NoException THEN Raise(subsets.exc, None)
             ELSE Ok([n \in 1..Len(subsets.value) |->
                         Flatten([e \in 1..Len(subsets.value[n]) |->
                                     RangeList(references[subsets.value[n][e] + 1])])])

\* The lengths a caller asks random_split for: one subset, or two with nothing,
\* half or all for the first, adding up to the dataset's size or to one more.
SplitLengths ==
    {<<DatasetLen>>}
        \cup {<<a, DatasetLen - a + d>> : a \in {0, DatasetLen \div 2, DatasetLen}, d \in {0, 1}}

\* A call that reads the dataset; it counts one against the input bound.  argument
\* keeps the arguments of the call.
ReadWith(op, argument, result) ==
    /\ CallerFree
    /\ inputs_left > 0
    /\ inputs_left' = inputs_left - 1
    /\ call' = [Call(op, IF result.exc = NoException THEN "returned" ELSE "raised", <<>>,
                     result.exc, NoException, Len(step_records), Len(trajectory_references))
                  EXCEPT !.argument = argument, !.returned = result.value]
    /\ UNCHANGED <<config, step_records, trajectory_references, origin, reporting_queue,
                   workers, n_workers_done, sent>>

\* A slip in the reading calls: the last record is taken out of the store.
ReadPopsLast(op, result) ==
    /\ CallerFree
    /\ inputs_left > 0
    /\ inputs_left' = inputs_left - 1
    /\ call' = [Call(op, IF result.exc = NoException THEN "returned" ELSE "raised", <<>>,
                     result.exc, NoException, Len(step_records), Len(trajectory_references))
                  EXCEPT !.returned = result.value]
    /\ step_records' = SubSeq(step_records, 1, Len(step_records) - 1)
    /\ UNCHANGED <<config, trajectory_references, origin, reporting_queue,
                   workers, n_workers_done, sent>>

\* A call that reads the dataset and does not keep its arguments.
Read(op, result) == ReadWith(op, None, result)

\* dataset[index]
GetItemCall(index) == Read("__getitem__", GetItem(step_records, index))

\* dataset.random_split(lengths, generator), the generator giving shuffled_indices.
RandomSplitCall(lengths, shuffled_indices) ==
    Read("random_split",
         RandomSplit(step_records, trajectory_references, lengths, shuffled_indices))

Next ==
    \/ \E paths \in PathLists(inputs_left) : LoadSequential(paths)
    \/ \E paths \in PathLists(inputs_left) : LoadParallel(paths)
    \/ \E w \in 1..MaxWorkers + 1 : WorkerPut(w)
    \/ \E w \in 1..MaxWorkers + 1 : MonitorDone(w)
    \/ \E w \in 1..MaxWorkers + 1 : MonitorError(w)
    \/ \E w \in 1..MaxWorkers + 1 : MonitorStore(w)
    \/ MonitorReturn
    \/ \E steps \in Episodes : AppendTrajectory(steps)

Spec == Init /\ [][Next]_vars

\* One turn of the monitoring loop of _load_data_parallel: reporting_queue.get()
\* returns and its branch runs, or the loop ends and the call returns.
MonitorStep ==
    \/ \E w \in 1..MaxWorkers + 1 : MonitorDone(w) \/ MonitorError(w) \/ MonitorStore(w)
    \/ MonitorReturn

\* Worker process w is alive and reporting_queue.put() would not block it: the
\* condition under which WorkerPut(w) can happen, ENABLED <<WorkerPut(w)>>_vars.
CanPut(w) ==
    /\ w \in 1..Len(workers)
    /\ workers[w].state = "running"
    /\ Len(reporting_queue[w]) < MaxUnread

\* WF_vars(WorkerPut(w)) with its enabling condition written out.
WorkerFair(w) == []<>(~CanPut(w)) \/ []<><<WorkerPut(w)>>_vars

\* The dataset as constructed with one process or with the largest number of
\* worker processes, and with the identity processor.
FairInit ==
    /\ Init
    /\ n_workers \in {1, MaxWorkers}
    /\ trajectory_processor = IdentityTrajectoryProcessor

\* Fair scheduling: a worker process that can put its next message is eventually
\* run, and so is the caller when get() can return or the loop can end.
FairSpec ==
    /\ FairInit
    /\ [][Next]_vars
    /\ \A w \in 1..MaxWorkers + 1 : WorkerFair(w)
    /\ WF_vars(MonitorStep)

\* All lists of paths and loaded records that count at most n.
RECURSIVE SourceLists(_)
SourceLists(n) ==
    {<<>>} \cup UNION {{<<p>> \o l : l \in SourceLists(n - Cost(p))} :
                       p \in {q \in Paths \cup LoadedRecords : Cost(q) <= n}}

\* The dataset loaded from lists of files and of loaded trajectory records.
SourcesNext ==
    \/ \E sources \in SourceLists(inputs_left) : LoadSequential(sources)
    \/ \E sources \in SourceLists(inputs_left) : LoadParallel(sources)
    \/ \E w \in 1..MaxWorkers + 1 : WorkerPut(w)
    \/ \E w \in 1..MaxWorkers + 1 : MonitorDone(w)
    \/ \E w \in 1..MaxWorkers + 1 : MonitorError(w)
    \/ \E w \in 1..MaxWorkers + 1 : MonitorStore(w)
    \/ MonitorReturn
    \/ \E steps \in Episodes : AppendTrajectory(steps)

SourcesSpec == Init /\ [][SourcesNext]_vars

(***************************************************************************)
(* The trajectory processors called on one TrajectoryRecord object that    *)
(* the caller keeps: pre_process, process and append see the object as the *)
(* call before left it.                                                    *)
(***************************************************************************)
\* A recorded trajectory: n complete step records, the last of them with the
\* given done flag and info, then (tail) the incomplete record a recording may
\* end with, whose own done flag is the opposite.
Recorded(kind, n, done, info, tail) ==
    [i \in 1..(n + IF tail THEN 1 ELSE 0) |->
        IF kind = "StateRecord"
        THEN IF i <= n THEN StateRecord(i, <<"s">>, <<"m">>, i = n /\ done,
                                        IF i = n THEN info ELSE NoInfo)
             ELSE StateRecord(i, <<"s">>, None, ~done, None)
        ELSE IF i <= n THEN StructuredSpacesRecord(i, <<"o">>, <<"u">>, i = n /\ done,
                                                   IF i = n THEN info ELSE NoInfo, i = 1)
             ELSE StructuredSpacesRecord(i, None, None, ~done, None, FALSE)]

Trajectories ==
    {t \in {Recorded(kind, n, done, info, tail) :
                kind \in {"StateRecord", "StructuredSpacesRecord"}, n \in 0..MaxLen,
                done \in BOOLEAN, info \in {None, NoInfo, TimeLimitInfo},
                tail \in BOOLEAN} : Len(t) <= MaxLen}

ClippingProcessors ==
    {IdentityTrajectoryProcessor}
        \cup {DeadEndClippingTrajectoryProcessor(clip_k) : clip_k \in 0..MaxClipK}

\* An empty dataset and a caller holding one trajectory object.
ProcessorInit ==
    /\ n_workers = 1
    /\ conversion_env_factory \in {EnvFactory, None}
    /\ trajectory_processor \in ClippingProcessors
    /\ step_records = <<>>
    /\ trajectory_references = <<>>
    /\ reporting_queue = None
    /\ workers = <<>>
    /\ n_workers_done = 0
    /\ \E steps \in Trajectories :
          call = [Call("none", "idle", <<>>, NoException, NoException, 0, 0)
                    EXCEPT !.trajectory = <<steps>>]
    /\ origin = <<>>
    /\ sent = <<>>
    /\ inputs_left = MaxCalls

\* A call of a processor method on the caller's object: pre_process leaves its
\* result in the object, also when the call raises afterwards.
ProcessorCall(op, result) ==
    /\ CallerFree
    /\ inputs_left > 0
    /\ inputs_left' = inputs_left - 1
    /\ call' = [Call(op, IF result.exc = NoException THEN "returned" ELSE "raised", <<>>,
                     result.exc, NoException, Len(step_records), Len(trajectory_references))
                  EXCEPT !.argument = call.trajectory,
                         !.trajectory = <<pre_process(trajectory_processor,
                                                      call.trajectory[1]).value>>,
                         !.returned = IF result.exc = NoException THEN <<result.value>>
                                      ELSE None]
    /\ UNCHANGED <<config, step_records, trajectory_references, origin, reporting_queue,
                   workers, n_workers_done, sent>>

\* trajectory_processor.pre_process(trajectory)
PreProcessCall == ProcessorCall("pre_process", pre_process(trajectory_processor, call.trajectory[1]))

\* trajectory_processor.process(trajectory, conversion_env)
ProcessCall ==
    ProcessorCall("process", process(trajectory_processor, call.trajectory[1],
                                     IF conversion_env_factory # None THEN Env ELSE None))

ProcessorNext ==
    \/ PreProcessCall
    \/ ProcessCall
    \/ AppendTrajectory(call.trajectory[1])

ProcessorSpec == ProcessorInit /\ [][ProcessorNext]_vars

\* The dataset loaded, appended to and read.
DatasetNext ==
    \/ Next
    \/ \E index \in -(DatasetLen + 1)..DatasetLen : GetItemCall(index)
    \/ \E lengths \in SplitLengths :
          \E shuffled_indices \in RandPerm(Len(trajectory_references)) :
              RandomSplitCall(lengths, shuffled_indices)

\* A dataset that loads sequentially or with two workers.
DatasetInit == Init /\ n_workers \in {1, 2}

DatasetSpec == DatasetInit /\ [][DatasetNext]_vars

(***************************************************************************)
(* A dataset filled by append and then read: __getitem__ at every index    *)
(* around the store, random_split into up to three subsets.                *)
(***************************************************************************)
\* The lengths asked of random_split: one to three subsets of nothing to three steps.
ReadLengths == UNION {[1..k -> 0..3] : k \in 1..3}

\* dataset.append(trajectory), while one more call is left to read the dataset.
ReadAppend(steps) == inputs_left > 1 /\ AppendTrajectory(steps)

\* dataset[index], as the caller's last call.
ReadGetItem(index) ==
    ReadWith("__getitem__", <<index>>, GetItem(step_records, index))

\* dataset.random_split(lengths, generator), the generator giving shuffled_indices,
\* as the caller's last call.
ReadRandomSplit(lengths, shuffled_indices) ==
    ReadWith("random_split", <<lengths, shuffled_indices>>,
             RandomSplit(step_records, trajectory_references, lengths, shuffled_indices))

\* An empty dataset with the identity processor; the caller appends up to MaxInputs
\* trajectories and then reads the dataset once (a read leaves the store as it is,
\* so a second read would see what the first saw).
ReadInit ==
    /\ n_workers = 1
    /\ conversion_env_factory = EnvFactory
    /\ trajectory_processor = IdentityTrajectoryProcessor
    /\ step_records = <<>>
    /\ trajectory_references = <<>>
    /\ reporting_queue = None
    /\ workers = <<>>
    /\ n_workers_done = 0
    /\ call = Call("none", "idle", <<>>, NoException, NoException, 0, 0)
    /\ origin = <<>>
    /\ sent = <<>>
    /\ inputs_left \in 1..MaxInputs + 1

ReadNext ==
    \/ \E steps \in Episodes : ReadAppend(steps)
    \/ /\ inputs_left = 1
       /\ \E index \in -(DatasetLen + 1)..DatasetLen : ReadGetItem(index)
    \/ /\ inputs_left = 1
       /\ \E shuffled_indices \in RandPerm(Len(trajectory_references)) :
             \E lengths \in ReadLengths : ReadRandomSplit(lengths, shuffled_indices)

ReadSpec == ReadInit /\ [][ReadNext]_vars

(***************************************************************************)
(* The static methods called on their own:                                 *)
(* TrajectoryProcessor.convert_trajectory_with_env and                     *)
(* InMemoryDataset.deserialize_trajectory.                                 *)
(***************************************************************************)
\* A step record at (1-based) position i of a trajectory: a complete raw record, a
\* raw record without state or without action, or an already converted record.
StepKinds == {"complete", "no_state", "no_action", "converted"}

Step(kind, i) ==
    CASE kind = "complete"  -> StateRecord(i, <<"s", i>>, <<"m", i>>, FALSE, NoInfo)
      [] kind = "no_state"  -> StateRecord(i, None, <<"m", i>>, FALSE, NoInfo)
      [] kind = "no_action" -> StateRecord(i, <<"s", i>>, None, FALSE, NoInfo)
      [] OTHER              -> StructuredSpacesRecord(i, <<"o", i>>, <<"u", i>>, FALSE,
                                                      NoInfo, FALSE)

\* The trajectories of up to MaxSteps such records, in every order.
MixedTrajectories ==
    UNION {{[i \in 1..n |-> Step(kinds[i], i)] : kinds \in [1..n -> StepKinds]} :
           n \in 0..MaxSteps}

\* The items a pickled list or dict may hold, and the files on disk.
PickledItems == {TrajectoryRecord(steps) : steps \in Episodes} \cup {NotATrajectory}

Files ==
    {MissingFile, PickleFile("other", <<>>)}
        \cup {PickleFile("TrajectoryRecord", <<TrajectoryRecord(steps)>>) : steps \in Episodes}
        \cup UNION {{PickleFile(shape, items) : shape \in {"List", "Dict"},
                                                items \in [1..n -> PickledItems]} :
                    n \in 0..MaxItems}

\* A call of a static method: it reads its argument only.  returned is what the
\* call returned, for a generator what it yielded before it ended or raised.
StaticCall(op, argument, result, returned) ==
    /\ CallerFree
    /\ inputs_left > 0
    /\ inputs_left' = inputs_left - 1
    /\ call' = [Call(op, IF result.exc = NoException THEN "returned" ELSE "raised", <<>>,
                     result.exc, NoException, Len(step_records), Len(trajectory_references))
                  EXCEPT !.argument = argument, !.returned = returned]
    /\ UNCHANGED <<config, step_records, trajectory_references, origin, reporting_queue,
                   workers, n_workers_done, sent>>

\* TrajectoryProcessor.convert_trajectory_with_env(trajectory, conversion_env)
ConvertCall(steps, conversion_env) ==
    LET result == convert_trajectory_with_env(steps, conversion_env)
    IN  StaticCall("convert_trajectory_with_env", <<steps, conversion_env>>, result,
                   IF result.exc = NoException THEN <<result.value>> ELSE None)

\* list(InMemoryDataset.deserialize_trajectory(trajectory_file)), the file being file.
DeserializeCall(file) ==
    LET result == deserialize_trajectory(file)
    IN  StaticCall("deserialize_trajectory", <<file>>, result, <<result.value>>)

StaticInit ==
    /\ Init
    /\ n_workers = 1
    /\ conversion_env_factory = EnvFactory
    /\ trajectory_processor = IdentityTrajectoryProcessor

StaticNext ==
    \/ \E steps \in MixedTrajectories : \E conversion_env \in {Env, None} :
          ConvertCall(steps, conversion_env)
    \/ \E file \in Files : DeserializeCall(file)

StaticSpec == StaticInit /\ [][StaticNext]_vars

(***************************************************************************)
(* Notions shared by the properties below.                                 *)
(***************************************************************************)
\* sum(len(ref) for ref in references)
RECURSIVE SumRangeLen(_)
SumRangeLen(references) ==
    IF Len(references) = 0 THEN 0
    ELSE RangeLen(Head(references)) + SumRangeLen(Tail(references))

\* The step records an episode reference points at.
EpisodeAt(i) ==
    SubSeq(step_records, trajectory_references[i].start + 1, trajectory_references[i].stop)

\* The references stored since the current call began.
NewRefs == (call.pre_refs + 1)..Len(trajectory_references)

\* The current call is a load_data call running _load_data_parallel; workers,
\* reporting_queue and sent are those of this call (n_workers never changes).
ParallelCall == call.op = "load_data" /\ n_workers # 1
SequentialCall == call.op = "load_data" /\ n_workers = 1

ConversionEnv == IF conversion_env_factory # None THEN Env ELSE None

(***************************************************************************)
(* C1.  In every reachable state, after any sequence of append and load    *)
(* calls (sequential or parallel, also calls that raised part-way), the    *)
(* number of stored step records equals the sum of the lengths of all      *)
(* stored episode references.                                              *)
(***************************************************************************)
C1_SizeIsSumOfReferences ==
    /\ DatasetLen = SumRangeLen(trajectory_references)
    /\ Len(origin) = Len(trajectory_references)

\* A load call raised part-way after storing episodes on top of earlier ones.
C1_Witness ==
    /\ call.op = "load_data"
    /\ call.pc = "raised"
    /\ call.pre_steps > 0
    /\ DatasetLen > call.pre_steps
    /\ Len(trajectory_references) >= 2

(***************************************************************************)
(* C2.  In every reachable state the episode references are half-open      *)
(* index ranges, contiguous and non-overlapping in storage order: the      *)
(* first starts at 0, each following one starts where the previous one     *)
(* ends, and the last ends at size().                                      *)
(***************************************************************************)
C2_ReferencesContiguous ==
    LET refs == trajectory_references
    IN  /\ \A i \in 1..Len(refs) : refs[i].start <= refs[i].stop
        /\ Len(refs) > 0 => refs[1].start = 0 /\ refs[Len(refs)].stop = DatasetLen
        /\ Len(refs) = 0 => DatasetLen = 0
        /\ \A i \in 1..Len(refs) - 1 : refs[i + 1].start = refs[i].stop

\* Three episodes are stored, an empty one between two non-empty ones.
C2_Witness ==
    /\ Len(trajectory_references) >= 3
    /\ \E i \in 2..Len(trajectory_references) - 1 :
          /\ RangeLen(trajectory_references[i]) = 0
          /\ RangeLen(trajectory_references[i - 1]) > 0
          /\ RangeLen(trajectory_references[i + 1]) > 0

(***************************************************************************)
(* C3.  For every file list and every n_workers > 1, a parallel load in    *)
(* which no worker fails ends with the same total step count and the same  *)
(* multiset of stored episodes as a sequential load of the same files into *)
(* an equally initialised dataset, whatever the interleaving of the        *)
(* workers' messages.                                                      *)
(***************************************************************************)
\* The store as it was when the current call began.
StoreBefore ==
    Store(SubSeq(step_records, 1, call.pre_steps),
          SubSeq(trajectory_references, 1, call.pre_refs),
          SubSeq(origin, 1, call.pre_refs))

\* The episodes of a store after its first n, each with the file position and the
\* trajectory it came from.
EpisodesAfter(store, n) ==
    [i \in 1..Len(store.trajectory_references) - n |->
        [steps |-> SubSeq(store.step_records,
                          store.trajectory_references[n + i].start + 1,
                          store.trajectory_references[n + i].stop),
         pos |-> store.origin[n + i].pos,
         ep |-> store.origin[n + i].ep]]

\* A sequence as a multiset: how often each element occurs.
Multiset(seq) ==
    [x \in {seq[i] : i \in DOMAIN seq} |-> Cardinality({i \in DOMAIN seq : seq[i] = x})]

StepsOnly(episodes) == [i \in DOMAIN episodes |-> episodes[i].steps]

C3_ParallelEqualsSequential ==
    (ParallelCall /\ n_workers > 1 /\ call.pc = "returned") =>
        LET sequential == LoadDataSequential(StoreBefore, Enumerate(call.paths), 1,
                                             trajectory_processor, ConversionEnv)
            stored == EpisodesAfter(CurrentStore, call.pre_refs)
            expected == EpisodesAfter(sequential.value, call.pre_refs)
        IN  /\ sequential.exc = NoException
            /\ Len(sequential.value.step_records) = DatasetLen
            /\ Multiset(StepsOnly(stored)) = Multiset(StepsOnly(expected))
            /\ Multiset(stored) = Multiset(expected)

\* A parallel load of two workers returned on a non-empty dataset, having stored
\* its episodes in another order than the file list's.
C3_Witness ==
    /\ ParallelCall /\ n_workers > 1 /\ call.pc = "returned"
    /\ Len(workers) >= 2
    /\ call.pre_steps > 0
    /\ Cardinality(NewRefs) >= 2
    /\ origin[call.pre_refs + 1].pos > 0

(***************************************************************************)
(* C4.  When the coordinator of a parallel load receives an error report,  *)
(* it terminates every started worker and the load call raises one error   *)
(* caused by the worker's original exception; from the moment the report   *)
(* is received no further message is read from the channel and no further  *)
(* step record or episode reference is stored by that load call.           *)
(***************************************************************************)
\* The current call is a parallel load that raised on an error report.
RaisedOnReport == ParallelCall /\ call.pc = "raised" /\ call.exc = "RuntimeError"

Last(seq) == seq[Len(seq)]

C4_AfterReport ==
    RaisedOnReport =>
        /\ \A w \in 1..Len(workers) : workers[w].state # "running"
        /\ call.cause # NoException
        /\ \E w \in 1..Len(workers) :
              /\ workers[w].state = "raised"
              /\ Last(sent[w]).type = "ExceptionReport"
              /\ Last(sent[w]).exception = call.cause
              /\ Len(reporting_queue[w]) = 0

\* The step that receives the report stores nothing and reads only the report;
\* while the raised call is the last call made, nothing is read or stored.
C4_Step ==
    /\ (call.pc = "monitoring" /\ call'.pc = "raised") =>
          /\ UNCHANGED <<step_records, trajectory_references, origin, n_workers_done>>
          /\ \E w \in 1..Len(workers) :
                /\ Len(reporting_queue[w]) > 0
                /\ Report(w).type = "ExceptionReport"
                /\ reporting_queue' = Got(w)
    /\ (RaisedOnReport /\ call' = call) =>
          UNCHANGED <<step_records, trajectory_references, origin, n_workers_done,
                      reporting_queue, sent, workers>>

C4_ErrorReportAborts == [](C4_AfterReport) /\ [][C4_Step]_vars

\* A load raised on a report while a second worker was running and a payload of
\* that worker was still unread; episodes stored earlier stay.
C4_Witness ==
    /\ RaisedOnReport
    /\ \E w \in 1..Len(workers) :
          /\ workers[w].state = "terminated"
          /\ Len(reporting_queue[w]) > 0
    /\ Cardinality(NewRefs) > 0

(***************************************************************************)
(* C5.  A load call has no partial-success outcome: whenever a load call   *)
(* raises (a worker error in parallel mode, a deserialization or           *)
(* processing error in sequential mode) the dataset's step records and     *)
(* episode references after the call are exactly those it held before the *)
(* call; otherwise every requested source is stored.                       *)
(***************************************************************************)
\* The trajectories of the file at 0-based position pos of the current call.
Requested(pos) == deserialize_trajectory(Disk(call.paths[pos + 1]))

Converted(pos, ep) == process(trajectory_processor, Requested(pos).value[ep], ConversionEnv)

\* Reference i holds, whole, one converted episode of a requested source.
IsRequestedEpisode(i) ==
    /\ origin[i].pos \in 0..Len(call.paths) - 1
    /\ origin[i].ep \in 1..Len(Requested(origin[i].pos).value)
    /\ Converted(origin[i].pos, origin[i].ep).exc = NoException
    /\ origin[i].k \in 1..Len(Converted(origin[i].pos, origin[i].ep).value)
    /\ EpisodeAt(i) = Converted(origin[i].pos, origin[i].ep).value[origin[i].k]

\* Every episode of every requested source is stored, once, by the current call.
AllRequestedStored ==
    /\ \A i \in NewRefs : IsRequestedEpisode(i)
    /\ \A pos \in 0..Len(call.paths) - 1 :
          /\ Requested(pos).exc = NoException
          /\ \A ep \in 1..Len(Requested(pos).value) :
                /\ Converted(pos, ep).exc = NoException
                /\ \A k \in 1..Len(Converted(pos, ep).value) :
                      Cardinality({i \in NewRefs : /\ origin[i].pos = pos
                                                   /\ origin[i].ep = ep
                                                   /\ origin[i].k = k}) = 1

\* The claim as stated: a raised load leaves the store as it was.
C5_NoPartialSuccess ==
    call.op = "load_data" =>
        /\ call.pc = "raised" =>
              /\ DatasetLen = call.pre_steps
              /\ Len(trajectory_references) = call.pre_refs
        /\ call.pc = "returned" => AllRequestedStored

\* As amended: a raised load keeps what the dataset held before the call and the
\* whole episodes of requested sources it stored before the failure, each once.
C5_RaisedLoadKeepsWholeEpisodes ==
    call.op = "load_data" =>
        /\ call.pc = "raised" =>
              /\ DatasetLen >= call.pre_steps
              /\ Len(trajectory_references) >= call.pre_refs
              /\ \A i \in NewRefs : IsRequestedEpisode(i)
              /\ \A i, j \in NewRefs :
                    (origin[i].pos = origin[j].pos /\ origin[i].ep = origin[j].ep
                        /\ origin[i].k = origin[j].k) => i = j
        /\ call.pc = "returned" => AllRequestedStored

\* No step changes or removes what is stored.
C5_StoredStays ==
    /\ Len(step_records') >= Len(step_records)
    /\ SubSeq(step_records', 1, Len(step_records)) = step_records
    /\ Len(trajectory_references') >= Len(trajectory_references)
    /\ SubSeq(trajectory_references', 1, Len(trajectory_references)) = trajectory_references

C5_LoadKeepsStoredEpisodes == [](C5_RaisedLoadKeepsWholeEpisodes) /\ [][C5_StoredStays]_vars

\* A load raised after it had stored an episode on top of an earlier one.
C5_Witness ==
    /\ call.op = "load_data"
    /\ call.pc = "raised"
    /\ call.pre_refs > 0
    /\ Len(trajectory_references) > call.pre_refs
    /\ DatasetLen > call.pre_steps

(***************************************************************************)
(* C6.  The sequence of messages each worker puts on the channel is zero   *)
(* or more payload messages followed by exactly one terminal message: the  *)
(* DONE sentinel if and only if the worker processed all of its assigned   *)
(* files without an exception, an error report otherwise.  A worker never  *)
(* sends DONE after an error report, never sends both, and sends nothing   *)
(* after its terminal message.                                             *)
(***************************************************************************)
IsTerminal(message) == message.type \in {DONE_TOKEN, "ExceptionReport"}

\* Every file of the chunk deserializes and every trajectory in it is processed
\* without an exception.
ProcessedWithoutException(trajectory_files) ==
    \A i \in 1..Len(trajectory_files) :
        LET d == deserialize_trajectory(Disk(trajectory_files[i].path))
        IN  /\ d.exc = NoException
            /\ \A ep \in 1..Len(d.value) :
                  process(trajectory_processor, d.value[ep], ConversionEnv).exc = NoException

\* Payloads only, except possibly the last message.
PayloadsThenTerminal(messages) ==
    \A i \in 1..Len(messages) - 1 : messages[i].type = "payload"

\* The claim as stated: every worker process that has stopped has put exactly one
\* terminal message, the last of its messages.
C6_ExactlyOneTerminal ==
    \A w \in 1..Len(workers) :
        workers[w].state # "running" =>
            /\ PayloadsThenTerminal(sent[w])
            /\ Len(sent[w]) > 0
            /\ IsTerminal(Last(sent[w]))
            /\ Last(sent[w]).type = DONE_TOKEN
                  <=> ProcessedWithoutException(workers[w].trajectory_files)

\* As amended: at most one terminal message, the last one; exactly one when the
\* run ended by itself; none when the coordinator terminated the worker.
C6_AtMostOneTerminal ==
    \A w \in 1..Len(workers) :
        /\ PayloadsThenTerminal(sent[w])
        /\ workers[w].state = "done" =>
              /\ Len(sent[w]) > 0
              /\ Last(sent[w]).type = DONE_TOKEN
              /\ ProcessedWithoutException(workers[w].trajectory_files)
        /\ workers[w].state = "raised" =>
              /\ Len(sent[w]) > 0
              /\ Last(sent[w]).type = "ExceptionReport"
              /\ ~ProcessedWithoutException(workers[w].trajectory_files)
        /\ workers[w].state \in {"running", "terminated"} =>
              \A i \in 1..Len(sent[w]) : sent[w][i].type = "payload"

\* One worker ended with DONE after two payloads, another with an error report.
C6_Witness ==
    \E v, w \in 1..Len(workers) :
        /\ workers[v].state = "done" /\ Len(sent[v]) >= 3
        /\ workers[w].state = "raised"

(***************************************************************************)
(* C7.  In a parallel load where no worker fails, the coordinator returns  *)
(* only after it has received the DONE sentinel of every started worker    *)
(* (min(n_workers, number of files) workers are started; with zero files   *)
(* the call returns at once with the store unchanged), and at that point   *)
(* every payload message sent by any worker has been stored exactly once   *)
(* as exactly one new episode reference, with no payload left unread.      *)
(***************************************************************************)
Min(a, b) == IF a < b THEN a ELSE b

Payloads(messages) == SelectSeq(messages, LAMBDA m : m.type = "payload")

RECURSIVE SumPayloads(_)
SumPayloads(w) == IF w = 0 THEN 0 ELSE Len(Payloads(sent[w])) + SumPayloads(w - 1)

C7_ReturnAfterAllDone ==
    (ParallelCall /\ call.pc = "returned") =>
        /\ Len(workers) = Min(n_workers, Len(call.paths))
        /\ n_workers_done = Len(workers)
        /\ \A w \in 1..Len(workers) :
              /\ workers[w].state = "done"
              /\ Last(sent[w]).type = DONE_TOKEN
              /\ reporting_queue[w] = <<>>
              /\ \A m \in 1..Len(sent[w]) :
                    sent[w][m].type = "payload" =>
                        /\ Cardinality({i \in NewRefs : origin[i] = sent[w][m].tag}) = 1
                        /\ \A i \in NewRefs :
                              origin[i] = sent[w][m].tag
                                  => EpisodeAt(i) = sent[w][m].step_records
        /\ Cardinality(NewRefs) = SumPayloads(Len(workers))
        /\ Len(call.paths) = 0 =>
              /\ Len(workers) = 0
              /\ DatasetLen = call.pre_steps
              /\ Len(trajectory_references) = call.pre_refs

\* A parallel load of two workers returned with three episodes stored.
C7_Witness ==
    /\ ParallelCall /\ call.pc = "returned"
    /\ Len(workers) = 2
    /\ Cardinality(NewRefs) = 3

(***************************************************************************)
(* C8.  If a worker raises while processing the j-th of its assigned       *)
(* files, then in every interleaving the load call raises and the store    *)
(* never contains a step record originating from any file assigned to that *)
(* worker after position j (its unprocessed files).                        *)
(***************************************************************************)
\* File i of a chunk deserializes and is processed without an exception.
FileProcessed(trajectory_files, i) ==
    ProcessedWithoutException(SubSeq(trajectory_files, i, i))

\* The 1-based index of the first file of the chunk that raises.
FailingFile(trajectory_files) ==
    CHOOSE j \in 1..Len(trajectory_files) :
        /\ ~FileProcessed(trajectory_files, j)
        /\ \A i \in 1..j - 1 : FileProcessed(trajectory_files, i)

\* Positions (in the list given to load) of the files after the failing one.
Unprocessed(trajectory_files) ==
    {trajectory_files[i].pos : i \in FailingFile(trajectory_files) + 1..Len(trajectory_files)}

C8_NothingFromUnprocessedFiles ==
    ParallelCall =>
        \A w \in 1..Len(workers) :
            workers[w].state = "raised" =>
                /\ call.pc \in {"monitoring", "raised"}
                /\ call.pc = "raised" => call.exc = "RuntimeError"
                /\ \A i \in NewRefs : origin[i].pos \notin Unprocessed(workers[w].trajectory_files)
                /\ \A v \in 1..Len(workers) : \A m \in 1..Len(sent[v]) :
                      sent[v][m].type = "payload" =>
                          sent[v][m].tag.pos \notin Unprocessed(workers[w].trajectory_files)

\* A worker raised on the first of its two files; the load raised after it had
\* stored an episode of the other worker.
C8_Witness ==
    /\ ParallelCall
    /\ call.pc = "raised"
    /\ Cardinality(NewRefs) > 0
    /\ \E w \in 1..Len(workers) :
          /\ workers[w].state = "raised"
          /\ Unprocessed(workers[w].trajectory_files) # {}

(***************************************************************************)
(* C9.  In a parallel load over files f[0..m-1] with n_workers = n, file   *)
(* f[i] is assigned to worker (i mod n) and to no other worker; the chunks *)
(* are pairwise disjoint, keep the input order within each chunk, and      *)
(* every input file belongs to the chunk of a worker that is actually      *)
(* started (no file is lost when the launch loop stops at the first empty  *)
(* chunk).                                                                 *)
(***************************************************************************)
\* The places (worker, index in its chunk) where the file at position i is assigned.
Assigned(i) ==
    {<<w, k>> \in (1..Len(workers)) \X (1..Len(call.paths)) :
        /\ k <= Len(workers[w].trajectory_files)
        /\ workers[w].trajectory_files[k].pos = i}

C9_RoundRobinChunks ==
    (ParallelCall /\ n_workers > 1) =>
        /\ Len(workers) = Min(n_workers, Len(call.paths))
        /\ \A w \in 1..Len(workers) :
              LET files == workers[w].trajectory_files
              IN  /\ Len(files) > 0
                  /\ \A k \in 1..Len(files) :
                        /\ files[k].pos \in 0..Len(call.paths) - 1
                        /\ files[k].path = call.paths[files[k].pos + 1]
                  /\ \A k \in 1..Len(files) - 1 : files[k].pos < files[k + 1].pos
        /\ \A i \in 0..Len(call.paths) - 1 :
              /\ Cardinality(Assigned(i)) = 1
              /\ \A a \in Assigned(i) : a[1] = (i % n_workers) + 1

\* Three files for two workers: the first worker has the files at positions 0 and 2.
C9_Witness ==
    /\ ParallelCall /\ n_workers = 2
    /\ Len(call.paths) = 3
    /\ Len(workers) = 2
    /\ Len(workers[1].trajectory_files) = 2
    /\ Len(workers[2].trajectory_files) = 1

(***************************************************************************)
(* C10.  In a parallel load, for any two episodes produced by the same     *)
(* worker, the one the worker produced first (earlier assigned file, or    *)
(* earlier position in the same file) is stored at a lower episode         *)
(* reference position than the other, for every interleaving with other    *)
(* workers' messages; no ordering is guaranteed between episodes of        *)
(* different workers.                                                      *)
(***************************************************************************)
\* The index, in the chunk of worker w, of the file at position pos.
FileIndex(w, pos) ==
    CHOOSE k \in 1..Len(workers[w].trajectory_files) :
        workers[w].trajectory_files[k].pos = pos

\* Tag a was produced before tag b by their (common) worker.
ProducedBefore(a, b) ==
    \/ FileIndex(a.worker, a.pos) < FileIndex(a.worker, b.pos)
    \/ /\ a.pos = b.pos
       /\ \/ a.ep < b.ep
          \/ a.ep = b.ep /\ a.k < b.k

C10_WorkerOrderKept ==
    ParallelCall =>
        /\ \A w \in 1..Len(workers) : \A a, b \in 1..Len(sent[w]) :
              (a < b /\ sent[w][a].type = "payload" /\ sent[w][b].type = "payload")
                  => ProducedBefore(sent[w][a].tag, sent[w][b].tag)
        /\ \A i, j \in NewRefs :
              (origin[i].worker = origin[j].worker /\ ProducedBefore(origin[i], origin[j]))
                  => i < j

\* Two episodes of one worker are stored in the order produced, and an episode of
\* another worker is stored before one from an earlier file of the list.
C10_Witness ==
    /\ ParallelCall
    /\ \E i, j \in NewRefs :
          origin[i].worker = origin[j].worker /\ ProducedBefore(origin[i], origin[j])
    /\ \E i, j \in NewRefs :
          i < j /\ origin[i].worker # origin[j].worker /\ origin[i].pos > origin[j].pos

(***************************************************************************)
(* C11.  A sequential load (n_workers = 1) stores episodes in file-list    *)
(* order and, within one file, in the order the deserializer yields them:  *)
(* the episode references the load adds are the processed episodes of the  *)
(* first file, then those of the second file, and so on.                   *)
(***************************************************************************)
\* The processed episodes of the file at position pos, in the order yielded.
ProcessedEpisodes(pos) ==
    Flatten([ep \in 1..Len(Requested(pos).value) |-> Converted(pos, ep).value])

\* Tag a comes before tag b in file-list order, then in file order.
ListedBefore(a, b) ==
    \/ a.pos < b.pos
    \/ a.pos = b.pos /\ a.ep < b.ep
    \/ a.pos = b.pos /\ a.ep = b.ep /\ a.k < b.k

C11_SequentialKeepsListOrder ==
    SequentialCall =>
        /\ \A i, j \in NewRefs : i < j => ListedBefore(origin[i], origin[j])
        /\ call.pc = "returned" =>
              StepsOnly(EpisodesAfter(CurrentStore, call.pre_refs))
                  = Flatten([p \in 1..Len(call.paths) |-> ProcessedEpisodes(p - 1)])

\* A sequential load of a two-episode file followed by a one-episode file returned.
C11_Witness ==
    /\ SequentialCall /\ call.pc = "returned"
    /\ Len(call.paths) = 2
    /\ Len(Requested(0).value) = 2
    /\ Cardinality(NewRefs) = 3
    /\ origin[Len(origin)].pos = 1

(***************************************************************************)
(* C12.  A worker puts exactly one payload message per source episode it   *)
(* deserializes (never one per step), the message being the whole list of  *)
(* that episode's converted step records; the number of payload messages   *)
(* sent by a worker that ended with DONE equals the number of episodes in  *)
(* its assigned files.                                                     *)
(***************************************************************************)
\* The trajectories of the k-th file assigned to worker w.
Deserialized(w, k) == deserialize_trajectory(Disk(workers[w].trajectory_files[k].path))

\* The number of episodes in the first k files assigned to worker w.
RECURSIVE EpisodesInFiles(_, _)
EpisodesInFiles(w, k) ==
    IF k = 0 THEN 0 ELSE Len(Deserialized(w, k).value) + EpisodesInFiles(w, k - 1)

\* Message m is the whole converted episode its tag names, of a file of worker w.
IsWholeEpisode(w, m) ==
    /\ m.tag.worker = w
    /\ \E f \in 1..Len(workers[w].trajectory_files) :
          /\ workers[w].trajectory_files[f].pos = m.tag.pos
          /\ m.tag.ep \in 1..Len(Deserialized(w, f).value)
          /\ m.tag.k = 1
          /\ LET converted == process(trajectory_processor,
                                      Deserialized(w, f).value[m.tag.ep], ConversionEnv)
             IN  converted.exc = NoException /\ m.step_records = converted.value[1]

RECURSIVE SumLen(_)
SumLen(lists) == IF Len(lists) = 0 THEN 0 ELSE Len(Head(lists)) + SumLen(Tail(lists))

\* What process() returns for the trajectory the current call was given.
ProcessedArgument == process(trajectory_processor, call.argument[1], ConversionEnv)

IsPrefix(a, b) == Len(a) <= Len(b) /\ \A i \in 1..Len(a) : b[i] = a[i]

C14_Step ==
    /\ IsPrefix(step_records, step_records')
    /\ IsPrefix(trajectory_references, trajectory_references')
    /\ call'.op \in {"__getitem__", "random_split"} =>
          UNCHANGED <<step_records, trajectory_references>>

C14_StoreIsAppendOnly == [][C14_Step]_vars

\* random_split returned two non-empty subsets of a dataset of two or more
\* episodes that a load and an append had filled.
C14_Witness ==
    /\ call.op = "random_split" /\ call.pc = "returned"
    /\ Len(trajectory_references) >= 2
    /\ \E i, j \in 1..Len(origin) : origin[i].pos = -1 /\ origin[j].pos >= 0
    /\ Len(call.returned) = 2
    /\ Len(call.returned[1]) > 0 /\ Len(call.returned[2]) > 0

(***************************************************************************)
(* C15.  load(source) accepts an explicit list whose items are trajectory  *)
(* file paths or already-loaded trajectory records and populates the store *)
(* with the episodes of every item, in sequential mode and in parallel     *)
(* mode alike.                                                             *)
(***************************************************************************)
\* The trajectories a list item stands for: those of the file at a path, or the
\* loaded record itself.
TrajectoriesIn(source) ==
    IF source \in LoadedRecords THEN Ok(<<Loaded(source)>>)
    ELSE deserialize_trajectory(Disk(source))

\* The item can be read and every trajectory in it is processed without an exception.
Loadable(source) ==
    /\ TrajectoriesIn(source).exc = NoException
    /\ \A ep \in 1..Len(TrajectoriesIn(source).value) :
          process(trajectory_processor, TrajectoriesIn(source).value[ep],
                  ConversionEnv).exc = NoException

RECURSIVE EpisodesIn(_)
EpisodesIn(sources) ==
    IF Len(sources) = 0 THEN 0
    ELSE Len(TrajectoriesIn(Head(sources)).value) + EpisodesIn(Tail(sources))

\* The claim as stated: a load of loadable files and records returns, with one
\* stored episode per trajectory of every item.
C15_LoadAcceptsRecords ==
    (/\ call.op = "load_data"
     /\ call.pc \in {"returned", "raised"}
     /\ n_workers >= 1
     /\ \A i \in 1..Len(call.paths) : Loadable(call.paths[i]))
        => /\ call.pc = "returned"
           /\ Cardinality(NewRefs) = EpisodesIn(call.paths)

\* A load of a list holding one loaded record, of an episode that append
\* accepts, raised and stored nothing.
C15_Witness ==
    /\ call.op = "load_data" /\ call.pc = "raised"
    /\ n_workers >= 1
    /\ Len(call.paths) = 1 /\ call.paths[1] \in LoadedRecords
    /\ Loadable(call.paths[1])
    /\ call.exc = (IF n_workers = 1 THEN "TypeError" ELSE "RuntimeError")
    /\ NewRefs = {}

(***************************************************************************)
(* Notions shared by the properties of DeadEndClipping.pre_process.        *)
(***************************************************************************)
\* The last call was pre_process of a DeadEndClipping processor.
ClippingCall == call.op = "pre_process" /\ trajectory_processor.name = "DeadEndClipping"

\* The steps of the episode passed in, and of the episode the call left.
PassedIn == call.argument[1]
Left == call.trajectory[1]

\* The last record passed in is an incomplete one.
EndsIncomplete == Len(PassedIn) > 0 /\ IsIncomplete(PassedIn[Len(PassedIn)])

\* The number of steps up to the last complete one, and that step's flags.
CompleteLen == IF EndsIncomplete THEN Len(PassedIn) - 1 ELSE Len(PassedIn)
EndsDone == CompleteLen > 0 /\ PassedIn[CompleteLen].done
EndsTimeLimited ==
    /\ CompleteLen > 0
    /\ PassedIn[CompleteLen].info # None
    /\ "TimeLimit.truncated" \in PassedIn[CompleteLen].info[1]

(***************************************************************************)
(* C16.  DeadEndClipping(clip_k = k).pre_process on an episode of length L *)
(* with L <= 2k returns an episode of length 0, whatever its done flag and *)
(* info.                                                                   *)
(***************************************************************************)
\* The claim as stated.
C16_UpToTwiceClipEmptied ==
    (ClippingCall /\ Len(PassedIn) <= 2 * trajectory_processor.clip_k) =>
        /\ call.pc = "returned"
        /\ Len(Left) = 0

\* As amended: emptied when fewer than 2k steps are left after an incomplete last
\* record is dropped; kept whole at exactly 2k; IndexError when no step is left.
C16_BelowTwiceClipEmptied ==
    ClippingCall =>
        /\ (CompleteLen >= 1 /\ CompleteLen < 2 * trajectory_processor.clip_k) =>
              /\ call.pc = "returned"
              /\ Len(Left) = 0
        /\ (CompleteLen >= 1 /\ CompleteLen = 2 * trajectory_processor.clip_k) =>
              /\ call.pc = "returned"
              /\ Left = SubSeq(PassedIn, 1, CompleteLen)
        /\ CompleteLen = 0 =>
              /\ call.pc = "raised"
              /\ call.exc = "IndexError"

\* A done episode of three steps was emptied by clip_k = 2.
C16_Witness ==
    /\ ClippingCall /\ call.pc = "returned"
    /\ trajectory_processor.clip_k = 2
    /\ Len(PassedIn) = 3 /\ EndsDone /\ ~EndsTimeLimited /\ ~EndsIncomplete
    /\ Len(Left) = 0

(***************************************************************************)
(* C17.  DeadEndClipping(clip_k = k).pre_process on an episode of length   *)
(* L > 2k whose last complete step is done and whose info carries no       *)
(* time-limit truncation mark returns an episode of length L - k when the  *)
(* last record is complete, and of length L - k - 1 when the last record   *)
(* is an incomplete record that is dropped first.                          *)
(***************************************************************************)
\* The claim as stated.
C17_DoneEpisodeClipped ==
    (/\ ClippingCall
     /\ Len(PassedIn) > 2 * trajectory_processor.clip_k
     /\ EndsDone /\ ~EndsTimeLimited)
        => /\ call.pc = "returned"
           /\ Len(Left) = Len(PassedIn) - trajectory_processor.clip_k
                              - (IF EndsIncomplete THEN 1 ELSE 0)

\* With clip_k = 0 a done episode of three complete steps came back empty.
C17_Witness ==
    /\ ClippingCall /\ call.pc = "returned"
    /\ trajectory_processor.clip_k = 0
    /\ Len(PassedIn) = 3 /\ EndsDone /\ ~EndsTimeLimited /\ ~EndsIncomplete
    /\ Len(Left) = 0

(***************************************************************************)
(* C18.  DeadEndClipping(clip_k = k).pre_process on an episode of length   *)
(* L > 2k that is not done, or that is done with a time-limit truncation   *)
(* mark in its info, returns an episode of unchanged length L.             *)
(***************************************************************************)
\* The claim as stated.
C18_LengthUnchanged ==
    (/\ ClippingCall
     /\ Len(PassedIn) > 2 * trajectory_processor.clip_k
     /\ (~EndsDone \/ EndsTimeLimited))
        => /\ call.pc = "returned"
           /\ Len(Left) = Len(PassedIn)

\* As amended: the complete steps are returned unchanged; an incomplete last
\* record is dropped, and with no complete step the call raises IndexError.
C18_CompleteStepsKept ==
    (/\ ClippingCall
     /\ Len(PassedIn) > 2 * trajectory_processor.clip_k
     /\ (~EndsDone \/ EndsTimeLimited))
        => IF CompleteLen = 0
           THEN call.pc = "raised" /\ call.exc = "IndexError"
           ELSE /\ call.pc = "returned"
                /\ Left = SubSeq(PassedIn, 1, CompleteLen)
                /\ Len(Left) = Len(PassedIn) - (IF EndsIncomplete THEN 1 ELSE 0)

\* A time-limited done episode of three complete steps and an incomplete last
\* record came back with its three complete steps.
C18_Witness ==
    /\ ClippingCall /\ call.pc = "returned"
    /\ trajectory_processor.clip_k = 1
    /\ Len(PassedIn) = 4 /\ EndsIncomplete /\ EndsDone /\ EndsTimeLimited
    /\ Len(Left) = 3

C20_Step ==
    /\ call'.op \in {"pre_process", "process", "append"} =>
          call'.trajectory = call.trajectory
    /\ (call.op = "process" /\ call'.op = "process") =>
          /\ call'.exc = call.exc
          /\ call'.returned = call.returned

\* The claim as stated.
C20_PreProcessIsPure == [][C20_Step]_vars

\* pre_process of DeadEndClipping returned and the episode object passed in has
\* lost steps.
C20_Witness ==
    /\ ClippingCall /\ call.pc = "returned"
    /\ trajectory_processor.clip_k = 1
    /\ Len(PassedIn) = 3 /\ ~EndsIncomplete /\ EndsDone /\ ~EndsTimeLimited
    /\ Len(Left) = 2

(***************************************************************************)
(* Notions for the claims about convert_trajectory_with_env.               *)
(***************************************************************************)
\* The last call was convert_trajectory_with_env; its trajectory, its environment
\* and the list it returned.
ConvertCalled == call.op = "convert_trajectory_with_env"
ConvertedSteps == call.argument[1]
ConvertedWith == call.argument[2]
ConvertReturned == call.returned[1]

IsRaw(step_record) == step_record.kind = "StateRecord"
IsDropped(step_record) == IsRaw(step_record) /\ IsIncomplete(step_record)

\* The steps of a trajectory that are no incomplete raw records, in order.
KeptSteps(steps) == SelectSeq(steps, LAMBDA step_record : ~IsDropped(step_record))

\* out is the conversion of the raw record step_record.
IsConversionOf(out, step_record) ==
    /\ out.kind = "StructuredSpacesRecord"
    /\ out.id = step_record.id
    /\ out.observations = <<"observation">> \o step_record.maze_state
    /\ out.actions = <<"action">> \o step_record.maze_state \o step_record.maze_action
    /\ out.done = step_record.done
    /\ out.info = step_record.info

(***************************************************************************)
(* C21: convert_trajectory_with_env with a conversion environment returns, *)
(* in the order of the input, the conversion of every complete raw step    *)
(* and every already converted step unchanged; raw steps without state or  *)
(* action are dropped wherever they stand, so the output is shorter than   *)
(* the input by the number of incomplete raw steps.                        *)
(***************************************************************************)
C21_ConvertKeepsOrderDropsIncomplete ==
    (ConvertCalled /\ ConvertedWith # None) =>
        /\ call.pc = "returned"
        /\ LET kept == KeptSteps(ConvertedSteps)
               out == ConvertReturned
           IN  /\ Len(out) = Len(kept)
               /\ Len(out) = Len(ConvertedSteps)
                                - Cardinality({i \in 1..Len(ConvertedSteps) :
                                                  IsDropped(ConvertedSteps[i])})
               /\ \A j \in 1..Len(kept) :
                     IF IsRaw(kept[j]) THEN IsConversionOf(out[j], kept[j])
                     ELSE out[j] = kept[j]

\* A conversion has returned for a trajectory that holds an incomplete raw step
\* before a complete raw step and a converted step.
C21_Witness ==
    /\ ConvertCalled
    /\ ConvertedWith # None
    /\ call.pc = "returned"
    /\ Len(ConvertedSteps) = 3
    /\ IsDropped(ConvertedSteps[1])
    /\ IsRaw(ConvertedSteps[2]) /\ ~IsIncomplete(ConvertedSteps[2])
    /\ ~IsRaw(ConvertedSteps[3])
    /\ Len(ConvertReturned) = 2

(***************************************************************************)
(* C22: in an episode converted with an environment that holds a complete  *)
(* raw step, the first converted step of the output, and only that one, is *)
(* converted with the first-step-in-episode tag, also when raw steps       *)
(* before it were dropped.                                                 *)
(***************************************************************************)
\* The positions in the output of the steps converted from raw records.
ConvertedPositions ==
    {j \in 1..Len(KeptSteps(ConvertedSteps)) : IsRaw(KeptSteps(ConvertedSteps)[j])}

C22_FirstConvertedStepTagged ==
    (ConvertCalled /\ ConvertedWith # None /\ call.pc = "returned"
        /\ ConvertedPositions # {}) =>
        \A j \in ConvertedPositions :
            ConvertReturned[j].first_step_in_episode
                = (\A k \in ConvertedPositions : j <= k)

\* A conversion has returned for a trajectory whose first record is an incomplete
\* raw step and whose second is a complete raw step: no step of the output carries
\* the first-step-in-episode tag.
C22_Witness ==
    /\ ConvertCalled
    /\ ConvertedWith # None
    /\ call.pc = "returned"
    /\ Len(ConvertedSteps) >= 2
    /\ IsDropped(ConvertedSteps[1])
    /\ IsRaw(ConvertedSteps[2]) /\ ~IsIncomplete(ConvertedSteps[2])
    /\ \A j \in 1..Len(ConvertReturned) : ~ConvertReturned[j].first_step_in_episode

(***************************************************************************)
(* C23: convert_trajectory_with_env without a conversion environment fails *)
(* with an assertion error exactly when the episode holds a raw            *)
(* StateRecord, complete or not; an episode of converted records only is   *)
(* returned in full.                                                       *)
(***************************************************************************)
C23_NoEnvFailsIffRawRecord ==
    (ConvertCalled /\ ConvertedWith = None) =>
        IF \E i \in 1..Len(ConvertedSteps) : IsRaw(ConvertedSteps[i])
        THEN call.pc = "raised" /\ call.exc = "AssertionError" /\ call.returned = None
        ELSE call.pc = "returned" /\ ConvertReturned = ConvertedSteps

\* A conversion without environment has raised for a trajectory whose only raw
\* record is incomplete and stands after a converted record.
C23_Witness ==
    /\ ConvertCalled
    /\ ConvertedWith = None
    /\ call.pc = "raised"
    /\ Len(ConvertedSteps) >= 2
    /\ ~IsRaw(ConvertedSteps[1])
    /\ \A i \in 1..Len(ConvertedSteps) :
          IsRaw(ConvertedSteps[i]) => IsIncomplete(ConvertedSteps[i])
    /\ \E i \in 1..Len(ConvertedSteps) : IsRaw(ConvertedSteps[i])

(***************************************************************************)
(* Notions for the claims about deserialize_trajectory.                    *)
(***************************************************************************)
\* The last call was deserialize_trajectory on a file that exists; the pickled
\* content and the trajectories the generator yielded.
DeserializeCalled == call.op = "deserialize_trajectory" /\ call.argument[1].is_file
Pickled == call.argument[1]
Yielded == call.returned[1]

\* The step records of the first n pickled items.
ItemEpisodes(n) == [i \in 1..n |-> Pickled.items[i].step_records]

\* The number of items before the first that is no TrajectoryRecord.
RecordsBefore ==
    Cardinality({i \in 1..Len(Pickled.items) :
                    \A j \in 1..i : Pickled.items[j].is_trajectory})

HoldsRecordsOnly == RecordsBefore = Len(Pickled.items)

(***************************************************************************)
(* C24: deserializing a file yields 1 episode for a single                 *)
(* TrajectoryRecord, the N episodes in list order for a list of N records, *)
(* the N values in insertion order for a mapping of N records; any other   *)
(* content fails with a format error (RuntimeError) and yields nothing.    *)
(***************************************************************************)
C24_OtherContentIsFormatError ==
    DeserializeCalled =>
        IF Pickled.shape = "TrajectoryRecord"
        THEN call.exc = NoException /\ Yielded = ItemEpisodes(1)
        ELSE IF Pickled.shape \in {"List", "Dict"} /\ HoldsRecordsOnly
        THEN call.exc = NoException /\ Yielded = ItemEpisodes(Len(Pickled.items))
        ELSE call.exc = "RuntimeError" /\ Yielded = <<>>

\* C24 as the code has it: a single record, a list or a mapping of N records yield
\* 1, N, N episodes in order; content that is no record, list or mapping fails with
\* RuntimeError and yields nothing; a list or mapping that holds an item that is no
\* TrajectoryRecord yields the records before that item and then fails with an
\* assertion error.
C24_DeserializeByShape ==
    DeserializeCalled =>
        IF Pickled.shape = "TrajectoryRecord"
        THEN call.exc = NoException /\ Yielded = ItemEpisodes(1)
        ELSE IF Pickled.shape \in {"List", "Dict"}
        THEN /\ Yielded = ItemEpisodes(RecordsBefore)
             /\ call.exc = IF HoldsRecordsOnly THEN NoException ELSE "AssertionError"
        ELSE call.exc = "RuntimeError" /\ Yielded = <<>>

\* A pickled mapping of a record and an object of another type was deserialized:
\* one episode was yielded before the call raised.
C24_Witness ==
    /\ DeserializeCalled
    /\ Pickled.shape = "Dict"
    /\ Len(Pickled.items) = 2
    /\ Pickled.items[1].is_trajectory /\ ~Pickled.items[2].is_trajectory
    /\ Len(Yielded) = 1
    /\ call.pc = "raised"

(***************************************************************************)
(* Notions for the claims about __getitem__ and random_split.              *)
(***************************************************************************)
\* The last call was dataset[index] with the index kept.
GetCalled == call.op = "__getitem__" /\ call.argument # None
GetIndex == call.argument[1]

\* The last call was random_split with lengths and permutation kept; it returned.
SplitCalled == call.op = "random_split" /\ call.argument # None
SplitReturned == SplitCalled /\ call.pc = "returned"
AskedLengths == call.argument[1]
Shuffled == call.argument[2]
Subsets == call.returned

Elements(list) == {list[i] : i \in 1..Len(list)}
Indices(reference) == {i \in 0..DatasetLen : reference.start <= i /\ i < reference.stop}

(***************************************************************************)
(* C25: dataset[index] fails with a range error (IndexError) for every     *)
(* index outside [0, size), negative indices included, and returns the     *)
(* (observations, actions) pair of the record at that flat position for    *)
(* every index inside; the store keeps its size.                           *)
(***************************************************************************)
C25_OutsideRangeFails ==
    GetCalled =>
        /\ call.pre_steps = Len(step_records)
        /\ call.pre_refs = Len(trajectory_references)
        /\ IF 0 <= GetIndex /\ GetIndex < DatasetLen
           THEN /\ call.pc = "returned"
                /\ call.returned = <<step_records[GetIndex + 1].observations,
                                     step_records[GetIndex + 1].actions>>
           ELSE call.pc = "raised" /\ call.exc = "IndexError"

\* dataset[-1] has returned the pair of the last of several stored records.
C25_Witness ==
    /\ GetCalled
    /\ GetIndex = -1
    /\ DatasetLen >= 2
    /\ call.pc = "returned"
    /\ call.returned = <<step_records[DatasetLen].observations,
                         step_records[DatasetLen].actions>>

(***************************************************************************)
(* C26: whenever random_split returns, no episode is split: all step       *)
(* indices of an episode reference lie in one and the same subset.         *)
(***************************************************************************)
C26_NoEpisodeSplit ==
    SplitReturned =>
        \A e \in 1..Len(trajectory_references) :
            \E n \in 1..Len(Subsets) :
                /\ Indices(trajectory_references[e]) \subseteq Elements(Subsets[n])
                /\ \A m \in 1..Len(Subsets) :
                      m # n => Indices(trajectory_references[e]) \cap Elements(Subsets[m]) = {}

\* A split into two non-empty subsets has returned whose first subset is shorter
\* than asked: the requested cut fell inside an episode.
C26_Witness ==
    /\ SplitReturned
    /\ Len(Subsets) = 2
    /\ Subsets[1] # <<>> /\ Subsets[2] # <<>>
    /\ Len(Subsets[1]) < AskedLengths[1]

(***************************************************************************)
(* C28: random_split fails with a range error (ValueError) whenever the    *)
(* sum of the lengths differs from the size, whatever the permutation      *)
(* would be, and leaves step records and episode references unchanged.     *)
(***************************************************************************)
C28_Raised ==
    (SplitCalled /\ Sum(AskedLengths) # DatasetLen) =>
        call.pc = "raised" /\ call.exc = "ValueError" /\ call.returned = None

C28_Step ==
    (call'.op = "random_split" /\ call' # call) =>
        /\ step_records' = step_records
        /\ trajectory_references' = trajectory_references

C28_LengthMismatchFails == [](C28_Raised) /\ [][C28_Step]_vars

\* A split of a dataset of several episodes has raised ValueError for lengths that
\* add up to one step less than the size.
C28_Witness ==
    /\ SplitCalled
    /\ Len(trajectory_references) >= 2
    /\ Sum(AskedLengths) = DatasetLen - 1
    /\ Len(AskedLengths) >= 2
    /\ call.exc = "ValueError"

(***************************************************************************)
(* C29: whenever random_split returns, the subsets partition [0, size):    *)
(* every stored step index occurs exactly once in exactly one subset, the  *)
(* subset sizes add up to size, and the last subset holds exactly what the *)
(* earlier subsets do not hold.                                            *)
(***************************************************************************)
C29_SubsetsPartitionStore ==
    SplitReturned =>
        /\ \A i \in 0..DatasetLen - 1 :
              Cardinality({p \in {<<n, k>> : n \in 1..Len(Subsets), k \in 1..DatasetLen} :
                              /\ p[2] <= Len(Subsets[p[1]])
                              /\ Subsets[p[1]][p[2]] = i}) = 1
        /\ Sum([n \in 1..Len(Subsets) |-> Len(Subsets[n])]) = DatasetLen
        /\ Elements(Subsets[Len(Subsets)])
              = (0..DatasetLen - 1)
                  \ UNION {Elements(Subsets[n]) : n \in 1..Len(Subsets) - 1}

\* A split into three non-empty subsets has returned.
C29_Witness ==
    /\ SplitReturned
    /\ Len(Subsets) = 3
    /\ \A n \in 1..3 : Subsets[n] # <<>>

(***************************************************************************)
(* C30: whenever random_split returns, every subset but the last is a      *)
(* consecutive run of the shuffled episodes with no more steps than asked, *)
(* the run stops at the first episode that would exceed the target, and    *)
(* that episode is the first offered to the next subset; the last subset   *)
(* is the rest of the shuffled order.                                      *)
(***************************************************************************)
\* The number of steps of the episode at (1-based) position p of the shuffled order.
ShuffledLen(p) == RangeLen(trajectory_references[Shuffled[p] + 1])

\* The step indices of the episodes at positions from + 1 .. to of the shuffled order.
ShuffledRun(from, to) ==
    Flatten([p \in 1..(to - from) |->
                RangeList(trajectory_references[Shuffled[from + p] + 1])])

\* Subsets n, n + 1, ... are the greedy runs of the shuffled order after position from.
RECURSIVE GreedyRuns(_, _)
GreedyRuns(n, from) ==
    IF n = Len(Subsets)
    THEN Subsets[n] = ShuffledRun(from, Len(Shuffled))
    ELSE \E to \in from..Len(Shuffled) - 1 :
            /\ Subsets[n] = ShuffledRun(from, to)
            /\ Len(Subsets[n]) <= AskedLengths[n]
            /\ Len(Subsets[n]) + ShuffledLen(to + 1) > AskedLengths[n]
            /\ GreedyRuns(n + 1, to)

C30_GreedyConsecutiveRuns ==
    SplitReturned => Len(Subsets) = Len(AskedLengths) /\ GreedyRuns(1, 0)

\* A split into three subsets has returned in which the episode that did not fit
\* the first subset opens the second, and the one that did not fit the second
\* opens the third.
C30_Witness ==
    /\ SplitReturned
    /\ Len(Subsets) = 3
    /\ Len(trajectory_references) = 3
    /\ Subsets[1] # <<>> /\ Len(Subsets[1]) < AskedLengths[1]
    /\ Subsets[2] = RangeList(trajectory_references[Shuffled[2] + 1])
    /\ Subsets[2] # <<>>
    /\ Subsets[3] = RangeList(trajectory_references[Shuffled[3] + 1])
    /\ Subsets[3] # <<>>

(***************************************************************************)
(* C31: when DeadEndClipping clips (more than 2 * clip_k complete steps,   *)
(* done, no time-limit mark), the result is the input's complete steps     *)
(* without the last clip_k of them, in the original order, for every       *)
(* clip_k >= 0; with clip_k = 0 no step is dropped.                        *)
(***************************************************************************)
C31_ClipDropsLastK ==
    (/\ ClippingCall
     /\ CompleteLen > 2 * trajectory_processor.clip_k
     /\ EndsDone /\ ~EndsTimeLimited)
        => /\ call.pc = "returned"
           /\ Left = SubSeq(PassedIn, 1, CompleteLen - trajectory_processor.clip_k)

\* With clip_k = 0 a done episode of two complete steps came back without steps.
C31_Witness ==
    /\ ClippingCall /\ call.pc = "returned"
    /\ trajectory_processor.clip_k = 0
    /\ Len(PassedIn) = 2 /\ EndsDone /\ ~EndsTimeLimited /\ ~EndsIncomplete
    /\ Left = <<>>

(***************************************************************************)
(* C35: DeadEndClipping.pre_process returns an episode, possibly empty,    *)
(* without raising for every episode of raw or converted records, also for *)
(* an episode without step records and for one whose only record is an     *)
(* incomplete record that is dropped.                                      *)
(***************************************************************************)
C35_PreProcessNeverRaises ==
    ClippingCall => call.pc = "returned"

\* pre_process of an episode whose only record is an incomplete raw record has
\* raised IndexError.
C35_Witness ==
    /\ ClippingCall
    /\ Len(PassedIn) = 1 /\ EndsIncomplete
    /\ PassedIn[1].kind = "StateRecord"
    /\ call.pc = "raised" /\ call.exc = "IndexError"

(***************************************************************************)
(* C32: random_split returns exactly len(lengths) subsets for every        *)
(* non-empty lengths that add up to the size and every permutation, also   *)
(* when the episodes run out while a subset other than the last is being   *)
(* filled; the filling loop never reads past the shuffled episode list.    *)
(***************************************************************************)
C32_SplitReturnsForMatchingLengths ==
    (SplitCalled /\ Sum(AskedLengths) = DatasetLen) =>
        /\ call.pc = "returned"
        /\ Len(Subsets) = Len(AskedLengths)

\* A split of a dataset of several episodes into [size, 0] has raised IndexError:
\* the first subset took every episode and the loop read on.
C32_Witness ==
    /\ SplitCalled
    /\ Len(trajectory_references) >= 2
    /\ DatasetLen >= 1
    /\ AskedLengths = <<DatasetLen, 0>>
    /\ call.pc = "raised" /\ call.exc = "IndexError"

(***************************************************************************)
(* C34: each parallel load uses a fresh channel: what the call has unread, *)
(* what it has counted as DONE and what it has stored was put by its own   *)
(* workers; a message an earlier call left on its channel is never         *)
(* received by a later call.                                               *)
(***************************************************************************)
IsSuffix(a, b) == Len(a) <= Len(b) /\ a = SubSeq(b, Len(b) - Len(a) + 1, Len(b))

\* The messages of worker w that the coordinator of the current call has read.
Received(w) == SubSeq(sent[w], 1, Len(sent[w]) - Len(reporting_queue[w]))

\* The origins of the episodes the current call has stored from worker w, in order.
StoredFrom(w) ==
    SelectSeq(SubSeq(origin, call.pre_refs + 1, Len(origin)), LAMBDA tag : tag.worker = w)

C34_FreshChannelPerLoad ==
    (ParallelCall /\ call.exc # "ZeroDivisionError") =>
        /\ \A w \in 1..Len(workers) :
              /\ IsSuffix(reporting_queue[w], sent[w])
              /\ StoredFrom(w) = [m \in 1..Len(Payloads(Received(w))) |->
                                     Payloads(Received(w))[m].tag]
        /\ n_workers_done
              = Cardinality({w \in 1..Len(workers) :
                                \E m \in 1..Len(Received(w)) :
                                    Received(w)[m].type = DONE_TOKEN})

\* A parallel load has returned with an episode of its own stored, on a dataset
\* that holds an episode of an earlier parallel load one of whose inputs was never
\* stored.
C34_Witness ==
    /\ ParallelCall /\ call.pc = "returned"
    /\ call.pre_refs >= 1
    /\ \E i \in 1..call.pre_refs : origin[i].worker >= 1
    /\ Len(trajectory_references) > call.pre_refs
    /\ Len(trajectory_references) < MaxInputs - inputs_left

(***************************************************************************)
(* C33: termination of a parallel load under fair scheduling.              *)
(***************************************************************************)
\* The caller is inside the monitoring loop of _load_data_parallel.
Monitoring == ParallelCall /\ call.pc = "monitoring"

\* Worker w has put the message that ends its run, a DONE token or a report.
PutTerminal(w) ==
    /\ w <= Len(sent)
    /\ Len(sent[w]) > 0
    /\ sent[w][Len(sent[w])].type \in {DONE_TOKEN, "ExceptionReport"}

\* C33: under fair scheduling of the worker processes and of the caller, a parallel
\* load that has entered its monitoring loop eventually returns or raises, and
\* every worker it started eventually has put its terminal message (DONE token or
\* exception report) unless the call has raised and terminated it before.
C33_ParallelLoadEnds ==
    /\ Monitoring ~> (ParallelCall /\ call.pc \in {"returned", "raised"})
    /\ \A w \in 1..MaxWorkers + 1 :
          (Monitoring /\ w <= Len(workers))
              ~> \/ PutTerminal(w)
                 \/ call.pc = "raised" /\ w <= Len(workers) /\ workers[w].state = "terminated"

\* C33 as stated: under fair scheduling a parallel load that has entered its
\* monitoring loop eventually returns or raises, and every worker it started
\* eventually has put its terminal message, however its run ends.
C33_EveryWorkerPutsTerminal ==
    /\ Monitoring ~> (ParallelCall /\ call.pc \in {"returned", "raised"})
    /\ \A w \in 1..MaxWorkers + 1 : (Monitoring /\ w <= Len(workers)) ~> PutTerminal(w)

\* C33 witness: a parallel load with two workers has raised on the report of one
\* worker and has terminated the other, which was still running and has put no
\* terminal message.
C33_Witness ==
    /\ ParallelCall
    /\ call.pc = "raised"
    /\ Len(workers) = 2
    /\ \E w \in 1..2 : PutTerminal(w) /\ sent[w][Len(sent[w])].type = "ExceptionReport"
    /\ \E w \in 1..2 : workers[w].state = "terminated" /\ ~PutTerminal(w)

====
